---- MODULE Spec2Model ----
(***************************************************************************)
(* Model of the inscription tracking engine of ordi (src/src/block.rs,     *)
(* driven by src/src/lib.rs): the five key-value tables, the per-block     *)
(* InscriptionUpdater and the replay of the transactions of a block.       *)
(*                                                                         *)
(* Strings the engine builds with format! and takes apart with split and   *)
(* replace are sequences of characters.  A character is a triple           *)
(* <<kind, a, b>>: "/" and ":" are the two separators, <<"d", n, 0>> is    *)
(* the decimal digit n, and <<"id", t, c>> stands for the text             *)
(* "<txid t>i<c>" of an inscription id (a txid is 64 hex digits and never  *)
(* contains a separator or is a prefix of another txid).                   *)
(* Table keys that are never taken apart are tuples: <<t, v>> is the       *)
(* output key "<txid t>:<v>", <<0, 0, n>> is "<64 zeros>:0:<n>".           *)
(***************************************************************************)
EXTENDS Integers, Sequences, FiniteSets, TLC

\* ---------------------------------------------------------------- bounds
\* transactions replayed in one run, coinbase transactions included
MaxTxs == 4
\* transactions of the blocks the node serves to a run that is interrupted
MaxChainTxs == 2
\* transactions of the blocks the node serves to a run that is started again
MaxRestartTxs == 3
\* Err results of index_height_net in one run of start()
MaxErrors == 1
\* handlers registered with when_inscribe, and with when_transfer
MaxHandlers == 2
\* transactions of the blocks indexed with these handlers
MaxEventTxs == 3
\* heights whose subsidy is asked for: epochs 0..MaxEpoch
MaxEpoch == 130
\* bytes handed to read_varint: at most MaxRun equal bytes, then at most MaxTail
MaxRun == 10
MaxTail == 2
\* rows of the node's block index, and the heights and block files they name
MaxRows == 2
MaxIndexHeight == 2
MaxBlkIndex == 1
\* elements of a witness, inputs of a transaction handed to the parser
MaxWitness == 3
MaxInputs == 3
\* fields and body pushes of an envelope, envelopes of a script
MaxFields == 2
MaxBodyPushes == 2
MaxEnvelopes == 2
\* transactions replayed by the pre-population pass
MaxEarlyTxs == 2
\* transactions replayed by the pass and by the run that follows it
MaxValueTxs == 4
\* Err results of that run
MaxValueErrors == 1
\* heights from FIRST_INSCRIPTION_HEIGHT on that a local index holds
MaxLocalHeights == 2
\* heights a local index ends before FIRST_INSCRIPTION_HEIGHT - 1
MaxShortfall == 1
\* transactions of the blocks served to a start() with a local index
MaxStartTxs == 3
\* Err results in that start()
MaxStartErrors == 1
\* rows of the block-index store of a scan
MaxScanRows == 3

\* ------------------------------------------------------- program constants
FIRST_INSCRIPTION_HEIGHT == 767430
SUBSIDY_HALVING_INTERVAL == 210000
FIRST_POST_SUBSIDY == 33
\* u32::MAX, the vout of the null outpoint.  TLC integers are 32-bit signed,
\* so the all-ones word is written -1; it is compared, never computed with.
U32_MAX == -1
\* the width of a u64, the type of amounts and of shift counts
U64_BITS == 64
BLOCK_VALID_CHAIN == 4
BLOCK_HAVE_DATA == 8
\* opcodes and the first byte of a taproot annex
OP_PUSHBYTES_75 == 75
OP_IF == 99
OP_ENDIF == 104
TAPROOT_ANNEX_PREFIX == 80
\* the all-zero hash, as a txid
NullTxid == 0

UNBOUND_INSCRIPTIONS == <<"unbound_inscriptions", 0, 0>>
NEXT_CURSED_ID_NUMBER == <<"next_cursed_id_number", 0, 0>>
NEXT_ID_NUMBER == <<"next_id_number", 0, 0>>
LOST_SATS == <<"lost_sats", 0, 0>>
INDEXED_HEIGHT == <<"indexed_height", 0, 0>>

\* ------------------------------------------------------------ input space
\* txids of the outputs that exist before the first indexed block; the node
\* answers get_raw_transaction for them
ExternalTxs == (1 :> <<2>>)
FirstTxid == Cardinality(DOMAIN ExternalTxs) + 1
\* values a non-coinbase output can take
OutputShapes == {<<>>, <<1>>, <<2>>, <<0, 1>>, <<1, 1>>}
\* number of envelopes the parser returns per input
EnvelopeShapes == {<<0>>, <<1>>, <<2>>, <<0, 0>>, <<0, 1>>}

\* ---------------------------------------------------------------- helpers
RECURSIVE SumSeq(_)
SumSeq(s) == IF s = <<>> THEN 0 ELSE Head(s) + SumSeq(Tail(s))

Range(f) == {f[x] : x \in DOMAIN f}

\* rusty_leveldb DB::get
DbGet(db, k, default) == IF k \in DOMAIN db THEN db[k] ELSE default
DbPut(db, k, v) == [x \in DOMAIN db \cup {k} |-> IF x = k THEN v ELSE db[x]]
DbDelete(db, k) == [x \in DOMAIN db \ {k} |-> db[x]]

\* a WriteBatch is the sequence of its operations; DB::write applies them in order
RECURSIVE DbWrite(_, _)
DbWrite(db, wb) ==
    IF wb = <<>> THEN db
    ELSE LET op == Head(wb)
         IN DbWrite(IF op.op = "put" THEN DbPut(db, op.k, op.v) ELSE DbDelete(db, op.k),
                    Tail(wb))
Put(k, v) == [op |-> "put", k |-> k, v |-> v]
Delete(k) == [op |-> "del", k |-> k, v |-> 0]

\* ---------------------------------------------------------------- strings
Slash == <<"/", 0, 0>>
Colon == <<":", 0, 0>>
Digit(n) == <<"d", n, 0>>
IdText(id) == <<"id", id[1], id[2]>>

\* format!("{}", n) for an unsigned integer
RECURSIVE fmt_u64(_)
fmt_u64(n) == IF n < 10 THEN <<Digit(n)>> ELSE fmt_u64(n \div 10) \o <<Digit(n % 10)>>

\* str::parse::<u64>() of a string of digits
RECURSIVE parse_u64(_)
parse_u64(s) ==
    IF Len(s) = 1 THEN s[1][2]
    ELSE 10 * parse_u64(SubSeq(s, 1, Len(s) - 1)) + s[Len(s)][2]

\* format!("/{}:{}", inscription_id, offset)
Entry(id, offset) == <<Slash, IdText(id), Colon>> \o fmt_u64(offset)

\* str::replace(pat, ""): every non-overlapping match, left to right
RECURSIVE replace(_, _)
replace(s, pat) ==
    IF Len(s) < Len(pat) THEN s
    ELSE IF SubSeq(s, 1, Len(pat)) = pat
         THEN replace(SubSeq(s, Len(pat) + 1, Len(s)), pat)
         ELSE <<Head(s)>> \o replace(Tail(s), pat)

\* str::split(sep): the pieces between the separators
RECURSIVE split(_, _)
split(s, sep) ==
    IF \A i \in 1..Len(s) : s[i] # sep THEN <<s>>
    ELSE LET i == CHOOSE j \in 1..Len(s) : s[j] = sep /\ \A m \in 1..(j - 1) : s[m] # sep
         IN <<SubSeq(s, 1, i - 1)>> \o split(SubSeq(s, i + 1, Len(s)), sep)

\* the (inscription_id, offset) pairs of a list "/id:off/id:off..."
ParseInscriptions(str) ==
    LET pieces == Tail(split(str, Slash))
    IN [i \in 1..Len(pieces) |->
          LET inscription_offset == split(pieces[i], Colon)
          IN [inscription_id |-> <<inscription_offset[1][1][2], inscription_offset[1][1][3]>>,
              offset |-> parse_u64(inscription_offset[2])]]

\* ------------------------------------------------------------------ state
VARIABLES
    node,               \* the node's transactions: txid -> values of its outputs
    utxo,               \* unspent outputs a later transaction may spend
    used,               \* transactions of the blocks fetched so far
    status,             \* table status
    output_value,       \* table output_value
    id_inscription,     \* table id_inscription
    inscription_output, \* table inscription_output
    output_inscription, \* table output_inscription
    pc,                 \* "idle" between blocks, "indexing" inside index_transactions
    height,             \* next_height of start(); the height being indexed
    block,              \* block.txs of the block being indexed, coinbase first;
                        \* a transaction not read yet is NoTx
    replayed,           \* positions in block.txs replayed so far, in replay order
    iu,                 \* the InscriptionUpdater of the block being indexed
    events,             \* entries handed to the registered handlers, in order
    last,               \* locals of the latest index_inscriptions_in_transaction call
    inscribe_updaters,  \* number of handlers registered with when_inscribe
    transfer_updaters,  \* number of handlers registered with when_transfer
    chain,              \* the blocks the node has served, by height
    disk,               \* the tables of the data directory when the process was killed
    reference,          \* the tables and events of the run before start() ran again
    call,               \* a call of a function outside the engine and its result
    ordi_index,         \* the Index of the node's block files and its BLK readers
    errors              \* the Err results start() has logged

vars == <<node, utxo, used, status, output_value, id_inscription,
          inscription_output, output_inscription, pc, height, block, replayed,
          iu, events, last, inscribe_updaters, transfer_updaters, chain, disk,
          reference, call, ordi_index, errors>>

\* the engine: all but the calls outside it
engine == <<node, utxo, used, status, output_value, id_inscription,
            inscription_output, output_inscription, pc, height, block, replayed,
            iu, events, last, inscribe_updaters, transfer_updaters, chain, disk,
            reference, errors>>

\* what the replay of a block never changes
handlers == <<inscribe_updaters, transfer_updaters>>
\* what a single run of start() on the node's RPC never uses
outside == <<disk, reference, call, ordi_index, errors>>

\* ---------------------------------------------------------------- subsidy
\* (50 * COIN_VALUE) >> epoch.  50 * 10^8 = 9765625 * 2^9 does not fit a TLC
\* integer, so the shift is taken on the factors.
RECURSIVE Pow2(_)
Pow2(k) == IF k = 0 THEN 1 ELSE 2 * Pow2(k - 1)
ShiftRight50Coin(k) == IF k <= 9 THEN 9765625 * Pow2(9 - k) ELSE 9765625 \div Pow2(k - 9)

\* Epoch::subsidy
EpochSubsidy(epoch) == IF epoch < FIRST_POST_SUBSIDY THEN ShiftRight50Coin(epoch) ELSE 0
\* Height::subsidy, through Epoch::from(Height)
subsidy(h) == EpochSubsidy(h \div SUBSIDY_HALVING_INTERVAL)

\* ------------------------------------------------------------ transactions
NullOutpoint == <<NullTxid, U32_MAX>>
is_null(outpoint) == outpoint[1] = NullTxid /\ outpoint[2] = U32_MAX

\* format!("{}:{}", txid, vout)
OutputKey(txid, vout) == <<txid, vout>>

\* Inscription::from_transaction: the parser's envelopes of every input, in
\* input order, numbered from 0 inside their input
RECURSIVE from_transaction_from(_, _)
from_transaction_from(tx, index) ==
    IF index >= Len(tx.inputs) THEN <<>>
    ELSE [offset \in 1..tx.envelopes[index + 1] |->
             [tx_in_index |-> index, tx_in_offset |-> offset - 1]]
         \o from_transaction_from(tx, index + 1)
from_transaction(tx) == from_transaction_from(tx, 0)

\* ------------------------------------------------- InscriptionUpdater::new
status_value(st, k) == DbGet(st, k, 0)

\* the stored counter taken as it is
InitialCursedNumber_stored(stored) == stored

\* lines 215-219: the counter of cursed numbers starts at -1
InitialCursedNumber(stored) == IF stored = 0 THEN stored - 1 ELSE stored

\* a counter that starts every block at zero
stored_next_number_fresh(st) == 0

\* line 220
stored_next_number(st) == status_value(st, NEXT_ID_NUMBER)

\* lines 175-224
NewInscriptionUpdater(st, h) ==
    [flotsam |-> <<>>,
     reward |-> subsidy(h),
     unbound_inscriptions |-> status_value(st, UNBOUND_INSCRIPTIONS),
     next_number |-> stored_next_number(st),
     next_cursed_number |-> InitialCursedNumber(status_value(st, NEXT_CURSED_ID_NUMBER)),
     lost_sats |-> status_value(st, LOST_SATS),
     output_inscription_cache |-> <<>>,
     id_inscription_wb |-> <<>>,
     inscription_output_wb |-> <<>>]

\* no updater exists between two blocks
NoUpdater ==
    [flotsam |-> <<>>, reward |-> 0, unbound_inscriptions |-> 0, next_number |-> 0,
     next_cursed_number |-> 0, lost_sats |-> 0, output_inscription_cache |-> <<>>,
     id_inscription_wb |-> <<>>, inscription_output_wb |-> <<>>]

\* ------------------------------------------------------------- curse rules
\* lines 285-288: inscribed_offsets.entry(offset).and_modify(count += 1).or_insert((id, 0))
record_offset(inscribed_offsets, offset, inscription_id) ==
    IF offset \in DOMAIN inscribed_offsets
    THEN [inscribed_offsets EXCEPT ![offset].count = @ + 1]
    ELSE DbPut(inscribed_offsets, offset, [id |-> inscription_id, count |-> 0])

\* the rules without the test of the envelope's place in its input
curse_of_first_input(tx_in_index, tx_in_offset, inscribed_offsets, offset) ==
    IF tx_in_index # 0 THEN "NotInFirstInput"
    ELSE IF offset \in DOMAIN inscribed_offsets THEN "Reinscription"
    ELSE "None"

\* lines 332-341
curse_of(tx_in_index, tx_in_offset, inscribed_offsets, offset) ==
    IF tx_in_index # 0 THEN "NotInFirstInput"
    ELSE IF tx_in_offset # 0 THEN "NotAtOffsetZero"
    ELSE IF offset \in DOMAIN inscribed_offsets THEN "Reinscription"
    ELSE "None"

\* every reinscription cursed
reinscription_cursed_always(first_reinscription, initial_inscription_is_cursed) == TRUE

\* lines 344-356
reinscription_cursed(first_reinscription, initial_inscription_is_cursed) ==
    ~(first_reinscription /\ initial_inscription_is_cursed)

\* lines 343-366
cursed_of(curse, inscribed_offsets, offset, st) ==
    IF curse = "Reinscription"
    THEN LET first_reinscription ==
                 IF offset \in DOMAIN inscribed_offsets
                 THEN inscribed_offsets[offset].count = 0
                 ELSE FALSE
             initial_inscription_is_cursed ==
                 status_value(st, IdText(inscribed_offsets[offset].id)) # 0
         IN reinscription_cursed(first_reinscription, initial_inscription_is_cursed)
    ELSE curse # "None"

\* line 368
unbound_of(input_value, tx_in_offset) == input_value = 0 \/ tx_in_offset # 0

\* -------------------------------------------------------------- input pass
\* lines 261-290: the inscriptions of the spent output start floating
RECURSIVE float_old(_, _, _, _, _)
float_old(olds, i, previous_output, input_value, a) ==
    IF i > Len(olds) THEN a
    ELSE LET offset == input_value + olds[i].offset
         IN float_old(olds, i + 1, previous_output, input_value,
               [a EXCEPT
                  !.floating = Append(@,
                      [inscription_id |-> olds[i].inscription_id,
                       offset |-> offset,
                       origin |-> [kind |-> "Old",
                                   old_output |-> previous_output,
                                   old_offset |-> olds[i].offset]]),
                  !.inscribed_offsets = record_offset(@, offset, olds[i].inscription_id)])

\* a counter that is not moved
next_id_counter_kept(id_counter) == id_counter

\* line 385: id_counter += 1
next_id_counter(id_counter) == id_counter + 1

\* lines 325-386: the envelopes of input input_index become new flotsam
RECURSIVE drain_new(_, _, _, _, _, _)
drain_new(tx, new_inscriptions, input_index, offset, input_value, a) ==
    IF a.peek > Len(new_inscriptions) THEN a
    ELSE LET new_inscription == new_inscriptions[a.peek]
         IN IF new_inscription.tx_in_index # input_index THEN a
            ELSE LET inscription_id == <<tx.hash, a.id_counter>>
                     curse == curse_of(new_inscription.tx_in_index,
                                       new_inscription.tx_in_offset,
                                       a.inscribed_offsets, offset)
                     cursed == cursed_of(curse, a.inscribed_offsets, offset, status)
                     unbound == unbound_of(input_value, new_inscription.tx_in_offset)
                 IN drain_new(tx, new_inscriptions, input_index, offset, input_value,
                       [a EXCEPT
                          !.floating = Append(@,
                              [inscription_id |-> inscription_id,
                               offset |-> offset,
                               origin |-> [kind |-> "New", cursed |-> cursed,
                                           unbound |-> unbound]]),
                          !.found = Append(@,
                              [inscription_id |-> inscription_id,
                               tx_in_index |-> new_inscription.tx_in_index,
                               tx_in_offset |-> new_inscription.tx_in_offset,
                               offset |-> offset, curse |-> curse, cursed |-> cursed,
                               unbound |-> unbound, input_value |-> input_value]),
                          !.peek = @ + 1,
                          !.id_counter = next_id_counter(@)])

\* the node asked for every spent output
calls_rpc_always(previous_output) == TRUE

\* lines 299 and 309: output_value.get(k) is None, get_raw_transaction is called
calls_rpc(previous_output) == previous_output \notin DOMAIN output_value

\* lines 299-322: the value of a spent output, from the table or from the node
spent_value(previous_output) ==
    IF ~calls_rpc(previous_output)
    THEN output_value[previous_output]
    ELSE node[previous_output[1]][previous_output[2] + 1]

\* lines 238-394
RECURSIVE input_pass(_, _, _, _)
input_pass(tx, new_inscriptions, i, a) ==
    IF i > Len(tx.inputs) THEN a
    ELSE IF is_null(tx.inputs[i])
    THEN input_pass(tx, new_inscriptions, i + 1,
                    [a EXCEPT !.input_value = @ + subsidy(height)])
    ELSE LET previous_output == OutputKey(tx.inputs[i][1], tx.inputs[i][2])
             cached == previous_output \in DOMAIN a.cache
             inscriptions_str ==
                 IF cached THEN a.cache[previous_output]
                 ELSE DbGet(output_inscription, previous_output, <<>>)
             cache1 ==
                 IF ~cached /\ inscriptions_str # <<>>
                 THEN DbPut(a.cache, previous_output, inscriptions_str)
                 ELSE a.cache
             olds == IF inscriptions_str # <<>>
                     THEN ParseInscriptions(inscriptions_str) ELSE <<>>
             a1 == float_old(olds, 1, previous_output, a.input_value,
                             [a EXCEPT !.cache = cache1])
             offset == a.input_value
             input_value == a.input_value + spent_value(previous_output)
             a2 == drain_new(tx, new_inscriptions, i - 1, offset, input_value,
                             [a1 EXCEPT !.input_value = input_value])
         IN input_pass(tx, new_inscriptions, i + 1,
                       [a2 EXCEPT !.wb = Append(@, Delete(previous_output))])

\* ------------------------------------------------ update_inscription_state
\* lines 664-667 and 556-564: format!("{}:{}", unbound_outpoint(), n), where
\* unbound_outpoint() is "<64 zeros>:0"
unbound_satpoint(n) == <<NullTxid, 0, n>>

\* an inscription stored under the first output of the transaction
real_output_first_vout(unbound, new_txid, vout, unbound_inscriptions) ==
    IF unbound THEN unbound_satpoint(unbound_inscriptions) ELSE OutputKey(new_txid, 0)

real_output(unbound, new_txid, vout, unbound_inscriptions) ==
    IF unbound THEN unbound_satpoint(unbound_inscriptions) ELSE OutputKey(new_txid, vout)

\* the counter left as it is
unbound_after_kept(unbound, unbound_inscriptions) == unbound_inscriptions

\* line 559
unbound_after(unbound, unbound_inscriptions) ==
    IF unbound THEN unbound_inscriptions + 1 ELSE unbound_inscriptions

\* lines 475-485 and 566-576: cache.entry(k).or_insert_with(read the table)
cache_entry(cache, k) ==
    IF k \in DOMAIN cache THEN cache
    ELSE DbPut(cache, k, DbGet(output_inscription, k, <<>>))

\* the list left as it was read
remove_from_list_kept(list, inscription_id, old_offset) == list

\* lines 487-490
remove_from_list(list, inscription_id, old_offset) ==
    replace(list, Entry(inscription_id, old_offset))

\* the new entry put in front of the list
append_to_list_in_front(list, inscription_id, offset) == Entry(inscription_id, offset) \o list

\* lines 577-582
append_to_list(list, inscription_id, offset) == list \o Entry(inscription_id, offset)

\* the number of a cursed inscription kept out of the table
status_put_skipped(st, inscription_id, number) == st

\* lines 517-520: self.status.put(inscription_id, next_cursed_number), at once
status_put(st, inscription_id, number) == DbPut(st, IdText(inscription_id), number)

\* lines 513-528: the number of a new inscription
number_of(cursed, next_number, next_cursed_number) ==
    IF cursed THEN next_cursed_number ELSE next_number

\* the handlers of a registry called last to first
iter_rev(updaters) == [k \in 1..updaters |-> updaters + 1 - k]

\* lines 492 and 539: self.transfer_updaters.iter(), self.inscribe_updaters.iter();
\* a registry is a Vec, a handler is known by its place in it
iter(updaters) == [k \in 1..updaters |-> k]

\* lines 462-588; s holds the status table, the updater, the handlers' entries and
\* the calls made so far in this transaction
update_inscription_state(s, flotsam, new_txid, vout, offset) ==
    LET u == s.iu
        old == flotsam.origin.kind = "Old"
        cursed == ~old /\ flotsam.origin.cursed
        unbound == ~old /\ flotsam.origin.unbound
        cache1 ==
            IF old
            THEN LET c == cache_entry(u.output_inscription_cache, flotsam.origin.old_output)
                 IN [c EXCEPT ![flotsam.origin.old_output] =
                        remove_from_list(@, flotsam.inscription_id,
                                         flotsam.origin.old_offset)]
            ELSE u.output_inscription_cache
        number == number_of(cursed, u.next_number, u.next_cursed_number)
        status1 == IF cursed THEN status_put(s.status, flotsam.inscription_id, number)
                   ELSE s.status
        entry(updater) ==
            IF old
            THEN [kind |-> "transfer", updater |-> updater,
                  inscription_id |-> flotsam.inscription_id,
                  from_output |-> flotsam.origin.old_output,
                  from_offset |-> flotsam.origin.old_offset,
                  txid |-> new_txid, vout |-> vout, offset |-> offset,
                  height |-> height]
            ELSE [kind |-> "inscribe", updater |-> updater, id |-> number,
                  inscription_id |-> flotsam.inscription_id,
                  txid |-> new_txid, vout |-> vout, height |-> height]
        \* lines 492-504 and 539-550: every registered handler is called, in the
        \* order of registration
        entries ==
            [k \in 1..(IF old THEN transfer_updaters ELSE inscribe_updaters) |->
                entry(iter(IF old THEN transfer_updaters ELSE inscribe_updaters)[k])]
        real_new_txid == real_output(unbound, new_txid, vout, u.unbound_inscriptions)
        cache2 == LET c == cache_entry(cache1, real_new_txid)
                  IN [c EXCEPT ![real_new_txid] =
                         append_to_list(@, flotsam.inscription_id, offset)]
    IN [status |-> status1,
        iu |-> [u EXCEPT
                  !.output_inscription_cache = cache2,
                  !.next_cursed_number = IF cursed THEN @ - 1 ELSE @,
                  !.next_number = IF ~old /\ ~cursed THEN @ + 1 ELSE @,
                  !.id_inscription_wb =
                      IF old THEN @ ELSE Append(@, Put(number, flotsam.inscription_id)),
                  !.unbound_inscriptions = unbound_after(unbound, @),
                  !.inscription_output_wb =
                      Append(@, Put(flotsam.inscription_id, real_new_txid))],
        events |-> s.events \o entries,
        placed |-> Append(s.placed,
                     [flotsam |-> flotsam, new_txid |-> new_txid, vout |-> vout,
                      offset |-> offset, output |-> real_new_txid, number |-> number,
                      from_before |->
                          IF old
                          THEN cache_entry(u.output_inscription_cache,
                                           flotsam.origin.old_output)
                                   [flotsam.origin.old_output]
                          ELSE <<>>,
                      from_after |->
                          IF old THEN cache1[flotsam.origin.old_output] ELSE <<>>,
                      to_before |-> cache_entry(cache1, real_new_txid)[real_new_txid],
                      to_after |-> cache2[real_new_txid],
                      next_number |-> u.next_number,
                      next_cursed_number |-> u.next_cursed_number,
                      unbound_inscriptions |-> u.unbound_inscriptions])]

\* ------------------------------------------------------------- output pass
\* line 410: Vec::sort_by_key is a stable sort
RECURSIVE insert_by_offset(_, _)
insert_by_offset(sorted, f) ==
    IF sorted = <<>> THEN <<f>>
    ELSE IF Head(sorted).offset <= f.offset
         THEN <<Head(sorted)>> \o insert_by_offset(Tail(sorted), f)
         ELSE <<f>> \o sorted

RECURSIVE sort_by_offset(_)
sort_by_offset(floating) ==
    IF floating = <<>> THEN <<>>
    ELSE insert_by_offset(sort_by_offset(SubSeq(floating, 1, Len(floating) - 1)),
                          floating[Len(floating)])

\* the offset inside the transaction, not inside the output
local_offset_absolute(flotsam_offset, output_value_before) == flotsam_offset

\* line 425
local_offset(flotsam_offset, output_value_before) == flotsam_offset - output_value_before

\* lines 420-435: the flotsam below `end` is placed in output vout
RECURSIVE place_in_output(_, _, _, _, _)
place_in_output(tx, vout, output_value_before, end, o) ==
    IF o.inscriptions = <<>> \/ Head(o.inscriptions).offset >= end THEN o
    ELSE LET flotsam == Head(o.inscriptions)
             offset == local_offset(flotsam.offset, output_value_before)
         IN place_in_output(tx, vout, output_value_before, end,
               [o EXCEPT
                  !.inscriptions = Tail(@),
                  !.s = update_inscription_state(@, flotsam, tx.hash, vout, offset)])

\* lines 413-438
RECURSIVE output_pass(_, _, _)
output_pass(tx, i, o) ==
    IF i > Len(tx.outputs) THEN o
    ELSE LET end == o.output_value + tx.outputs[i]
             o1 == place_in_output(tx, i - 1, o.output_value, end,
                      [o EXCEPT !.wb = Append(@, Put(OutputKey(tx.hash, i - 1),
                                                     tx.outputs[i]))])
         IN output_pass(tx, i + 1, [o1 EXCEPT !.output_value = end])

\* lines 443-448: what the coinbase outputs do not cover is lost
RECURSIVE place_lost(_, _, _)
place_lost(inscriptions, output_value_sum, s) ==
    IF inscriptions = <<>> THEN s
    ELSE LET flotsam == Head(inscriptions)
             new_offset == s.iu.lost_sats + flotsam.offset - output_value_sum
         IN place_lost(Tail(inscriptions), output_value_sum,
               update_inscription_state(s, flotsam, NullTxid, U32_MAX, new_offset))

\* lines 452-455: what the outputs do not cover goes to the block's queue
queue_offset(reward, offset, output_value_sum) == reward + offset - output_value_sum

to_fee(inscriptions, reward, output_value_sum) ==
    [i \in 1..Len(inscriptions) |->
        [inscriptions[i] EXCEPT !.offset = queue_offset(reward, @, output_value_sum)]]

\* the loss of this block alone
lost_sats_after_block(lost_sats, reward, output_value_sum) == reward - output_value_sum
\* the fee of the transaction left out
reward_after_kept(reward, input_value, output_value_sum) == reward

\* the outputs of the transaction left out
reward_after_inputs(reward, input_value, output_value_sum) == reward + input_value

\* line 450 and line 456
lost_sats_after(lost_sats, reward, output_value_sum) ==
    lost_sats + (reward - output_value_sum)
reward_after(reward, input_value, output_value_sum) ==
    reward + (input_value - output_value_sum)

\* lines 399-408: the coinbase takes over the block's queue
hand_off(is_coinbase, floating_inscriptions, flotsam) ==
    IF is_coinbase THEN floating_inscriptions \o flotsam ELSE floating_inscriptions

\* lines 442-457: the flotsam the outputs did not take, and the reward
settle(tx, is_coinbase, a, floating, o, s) ==
    [status |-> s.status,
     output_value |-> DbWrite(output_value, o.wb),
     iu |-> IF is_coinbase
            THEN [s.iu EXCEPT
                    !.lost_sats = lost_sats_after(@, s.iu.reward, o.output_value)]
            ELSE [s.iu EXCEPT
                    !.flotsam = @ \o to_fee(o.inscriptions, s.iu.reward, o.output_value),
                    !.reward = reward_after(@, a.input_value, o.output_value)],
     events |-> s.events,
     last |-> [tx |-> tx, is_coinbase |-> is_coinbase, found |-> a.found,
               floating |-> floating, placed |-> s.placed,
               input_value |-> a.input_value, output_value |-> o.output_value,
               before |-> iu, status |-> status]]

\* lines 440-448
after_outputs(tx, is_coinbase, a, floating, o) ==
    settle(tx, is_coinbase, a, floating, o,
           IF is_coinbase THEN place_lost(o.inscriptions, o.output_value, o.s) ELSE o.s)

\* lines 410-438
place_floating(tx, is_coinbase, a, floating) ==
    after_outputs(tx, is_coinbase, a, floating,
        output_pass(tx, 1,
            [inscriptions |-> floating, output_value |-> 0, wb |-> a.wb,
             s |-> [status |-> status,
                    iu |-> [iu EXCEPT
                              !.output_inscription_cache = a.cache,
                              !.flotsam = IF is_coinbase THEN <<>> ELSE @],
                    events |-> events,
                    placed |-> <<>>]]))

\* lines 396-411
after_inputs(tx, is_coinbase, a) ==
    place_floating(tx, is_coinbase, a,
                   sort_by_offset(hand_off(is_coinbase, a.floating, iu.flotsam)))

\* lines 226-460: the tables, the updater and the locals after the call
index_inscriptions_in_transaction(tx) ==
    after_inputs(tx, tx.inputs # <<>> /\ is_null(tx.inputs[1]),
        input_pass(tx, from_transaction(tx), 1,
            [floating |-> <<>>, inscribed_offsets |-> <<>>, input_value |-> 0,
             id_counter |-> 0, cache |-> iu.output_inscription_cache,
             wb |-> <<>>, peek |-> 1, found |-> <<>>]))

\* ------------------------------------------------------------ flush_update
\* every cached list put, the empty ones too
RECURSIVE cache_batch_put_all(_, _)
cache_batch_put_all(cache, keys) ==
    IF keys = {} THEN <<>>
    ELSE LET output == CHOOSE k \in keys : TRUE
         IN <<Put(output, cache[output])>> \o cache_batch_put_all(cache, keys \ {output})

\* lines 610-617
RECURSIVE cache_batch(_, _)
cache_batch(cache, keys) ==
    IF keys = {} THEN <<>>
    ELSE LET output == CHOOSE k \in keys : TRUE
         IN <<IF cache[output] # <<>> THEN Put(output, cache[output]) ELSE Delete(output)>>
            \o cache_batch(cache, keys \ {output})

\* lines 591-595
status_batch(u, h) ==
    <<Put(UNBOUND_INSCRIPTIONS, u.unbound_inscriptions),
      Put(NEXT_ID_NUMBER, u.next_number),
      Put(NEXT_CURSED_ID_NUMBER, u.next_cursed_number),
      Put(LOST_SATS, u.lost_sats),
      Put(INDEXED_HEIGHT, h)>>

\* lines 597-626: the batches are written in this order
flush_update(u, h) ==
    [id_inscription |-> DbWrite(id_inscription, u.id_inscription_wb),
     inscription_output |-> DbWrite(inscription_output, u.inscription_output_wb),
     output_inscription |->
         DbWrite(output_inscription,
                 cache_batch(u.output_inscription_cache,
                             DOMAIN u.output_inscription_cache)),
     status |-> DbWrite(status, status_batch(u, h))]

\* --------------------------------------------------------------- the chain
\* The transactions of a block are fixed when the block is fetched.  The engine
\* reads a transaction only in the iteration that replays it, so the model draws
\* the content of block.txs[position] when the loop reaches it: the behaviours
\* of the engine are the same, and the states before it do not depend on it.

\* the value of an output, as the chain has it
ChainValue(outpoint) == node[outpoint[1]][outpoint[2] + 1]

InputValue(tx) == SumSeq([i \in 1..Len(tx.inputs) |-> ChainValue(tx.inputs[i])])
Fee(tx) == InputValue(tx) - SumSeq(tx.outputs)
\* the fees of the non-coinbase transactions of a block
Fees(txs) == SumSeq([i \in 1..Len(txs) |-> IF i = 1 THEN 0 ELSE Fee(txs[i])])

InputChoices ==
    {<<a>> : a \in utxo} \cup {<<a, b>> : <<a, b>> \in {p \in utxo \X utxo : p[1] # p[2]}}

\* what a coinbase may pay out of `reward`: the subsidy, alone or after one
\* sat of the fees
CoinbaseShapes(reward) ==
    {outputs \in {<<subsidy(height)>>, <<1, subsidy(height)>>} :
        SumSeq(outputs) <= reward}

\* nothing was killed, nothing was started again, nothing was called
NoDisk == [status |-> <<>>, output_value |-> <<>>, id_inscription |-> <<>>,
           inscription_output |-> <<>>, pc |-> "running", height |-> 0]
NoRun == [status |-> <<>>, output_value |-> <<>>, id_inscription |-> <<>>,
          inscription_output |-> <<>>, output_inscription |-> <<>>,
          events |-> <<>>, height |-> 0]
NoCall == [f |-> "none", arg |-> 0, result |-> <<>>]
NoIndex == [entries |-> <<>>, max_height |-> 0, max_height_in_blk |-> <<>>,
            blks |-> <<>>]

NoTx == [hash |-> NullTxid, inputs |-> <<>>, outputs |-> <<>>, envelopes |-> <<>>]
NoLast ==
    [tx |-> NoTx, is_coinbase |-> FALSE, found |-> <<>>, floating |-> <<>>,
     placed |-> <<>>, input_value |-> 0, output_value |-> 0, before |-> NoUpdater,
     status |-> <<>>]

\* the txid of the transaction at a position of the block being indexed
Txid(position) == FirstTxid + (used - Len(block)) + (position - 1)

\* the transactions block.txs[position] can be: a coinbase paying out at most
\* subsidy plus fees at position 1, elsewhere a transaction that spends unspent
\* outputs and pays out no more than it spends
Transactions(position) ==
    IF position = 1
    THEN {[hash |-> Txid(position), inputs |-> <<NullOutpoint>>, outputs |-> outputs,
           envelopes |-> <<0>>] :
             outputs \in CoinbaseShapes(subsidy(height) + Fees(block))}
    ELSE {[hash |-> Txid(position), inputs |-> inputs, outputs |-> outputs,
           envelopes |-> envelopes] :
             <<inputs, outputs, envelopes>> \in
                 {c \in InputChoices \X OutputShapes \X EnvelopeShapes :
                     /\ Len(c[3]) = Len(c[1])
                     /\ SumSeq(c[2]) <=
                           SumSeq([i \in 1..Len(c[1]) |-> ChainValue(c[1][i])])}}

\* lib.rs 83-132: the tables of an empty data directory
NewOrdi ==
    /\ node = ExternalTxs
    /\ utxo = {<<t, 0>> : t \in DOMAIN ExternalTxs}
    /\ used = 0
    /\ status = <<>>
    /\ output_value = <<>>
    /\ id_inscription = <<>>
    /\ inscription_output = <<>>
    /\ output_inscription = <<>>
    /\ pc = "idle"
    /\ height = FIRST_INSCRIPTION_HEIGHT
    /\ block = <<>>
    /\ replayed = <<>>
    /\ iu = NoUpdater
    /\ events = <<>>
    /\ last = NoLast
    /\ chain = <<>>
    /\ disk = NoDisk
    /\ reference = NoRun
    /\ errors = 0

\* no function outside the engine is called, no local index is loaded
Constructed ==
    /\ NewOrdi
    /\ call = NoCall
    /\ ordi_index = NoIndex

\* an Ordi with one handler of each kind registered, about to start()
Init ==
    /\ Constructed
    /\ inscribe_updaters = 1
    /\ transfer_updaters = 1

\* lib.rs 175-183 and block.rs 99-113: the block at `height` is fetched and
\* index_transactions builds the InscriptionUpdater
IndexHeight ==
    /\ pc = "idle"
    /\ \E n \in 1..(MaxTxs - used) :
          /\ block' = [position \in 1..n |-> NoTx]
          /\ used' = used + n
    /\ iu' = NewInscriptionUpdater(status, height)
    /\ replayed' = <<>>
    /\ pc' = "indexing"
    /\ UNCHANGED <<node, utxo, status, output_value, id_inscription,
                   inscription_output, output_inscription, height, events, last>>
    /\ UNCHANGED <<handlers, chain, outside>>

\* the transactions in the order of the block
replay_order_of_block(n) == [k \in 1..n |-> k]

\* block.rs 115-121: txs.iter().skip(1).chain(txs.first()), as positions 1..n
replay_order(n) == [k \in 1..n |-> IF k < n THEN k + 1 ELSE 1]

\* block.rs 115-124: one iteration of the loop of index_transactions
IndexTransaction ==
    /\ pc = "indexing"
    /\ Len(replayed) < Len(block)
    /\ LET position == replay_order(Len(block))[Len(replayed) + 1]
       IN \E tx \in Transactions(position) :
             \E r \in {index_inscriptions_in_transaction(tx)} :
                /\ block' = [block EXCEPT ![position] = tx]
                /\ node' = node @@ (tx.hash :> tx.outputs)
                /\ utxo' = IF position = 1 THEN utxo
                           ELSE (utxo \ Range(tx.inputs))
                                \cup {<<tx.hash, v - 1>> : v \in 1..Len(tx.outputs)}
                /\ status' = r.status
                /\ output_value' = r.output_value
                /\ iu' = r.iu
                /\ events' = r.events
                /\ last' = r.last
                /\ replayed' = Append(replayed, position)
    /\ UNCHANGED <<used, id_inscription, inscription_output, output_inscription,
                   pc, height>>
    /\ UNCHANGED <<handlers, chain, outside>>

\* block.rs 126 and lib.rs 198-200: the loop is over, flush_update writes the
\* batches and start() moves to the next height
FlushUpdate ==
    /\ pc = "indexing"
    /\ Len(replayed) = Len(block)
    /\ \E r \in {flush_update(iu, height)} :
          /\ id_inscription' = r.id_inscription
          /\ inscription_output' = r.inscription_output
          /\ output_inscription' = r.output_inscription
          /\ status' = r.status
    /\ iu' = NoUpdater
    /\ pc' = "idle"
    /\ height' = height + 1
    /\ UNCHANGED <<node, utxo, used, output_value, block, replayed, events, last>>
    /\ UNCHANGED <<handlers, chain, outside>>

Next == IndexHeight \/ IndexTransaction \/ FlushUpdate

Spec == Init /\ [][Next]_vars

\* ------------------------------------------------- the steps of one start()
\* The same engine, with flush_update taken one table write at a time and
\* index_height_net returning Err.  The node serves the same block whenever it
\* is asked for the same height: chain keeps every block served, and what has
\* been read of its transactions.

\* lib.rs 196: heights count from FIRST_INSCRIPTION_HEIGHT
ChainIndex(h) == h - FIRST_INSCRIPTION_HEIGHT + 1

\* lib.rs 198-200: Ok(_) => next_height += 1
after_ok(next_height) == next_height + 1

\* the loop moving on after an error
after_err_skipped(next_height) == next_height + 1

\* lib.rs 201-204: Err(err) => warn and sleep, next_height is not touched
after_err(next_height) == next_height

\* block.rs 597-626: the tables flush_update writes, in the order of the writes
\* (output_value_wb is never filled, its write never happens)
flush_order_status_first ==
    <<"status", "id_inscription", "inscription_output", "output_inscription">>
flush_order ==
    <<"id_inscription", "inscription_output", "output_inscription", "status">>

\* lib.rs 176-180 and block.rs 99-113: get_block_hash and get_block succeed;
\* the node has at most max transactions to serve
Fetch(max) ==
    /\ pc = "idle"
    /\ IF ChainIndex(height) <= Len(chain)
       THEN /\ block' = chain[ChainIndex(height)]
            /\ UNCHANGED <<used, chain>>
       ELSE \E n \in 1..(max - used) :
               /\ block' = [position \in 1..n |-> NoTx]
               /\ used' = used + n
               /\ chain' = Append(chain, [position \in 1..n |-> NoTx])
    /\ iu' = NewInscriptionUpdater(status, height)
    /\ replayed' = <<>>
    /\ pc' = "indexing"
    /\ UNCHANGED <<node, utxo, status, output_value, id_inscription,
                   inscription_output, output_inscription, height, events, last>>
    /\ UNCHANGED <<handlers, outside>>

FetchBlock == Fetch(MaxChainTxs)

\* block.rs 115-124: one iteration of the loop of index_transactions; a
\* transaction the node has served before is served again
ReplayTransaction ==
    /\ pc = "indexing"
    /\ Len(replayed) < Len(block)
    /\ LET position == replay_order(Len(block))[Len(replayed) + 1]
           known == block[position] # NoTx
       IN \E tx \in IF known THEN {block[position]} ELSE Transactions(position) :
             \E r \in {index_inscriptions_in_transaction(tx)} :
                /\ block' = [block EXCEPT ![position] = tx]
                /\ chain' = [chain EXCEPT ![ChainIndex(height)][position] = tx]
                /\ node' = IF known THEN node ELSE node @@ (tx.hash :> tx.outputs)
                /\ utxo' = IF known \/ position = 1 THEN utxo
                           ELSE (utxo \ Range(tx.inputs))
                                \cup {<<tx.hash, v - 1>> : v \in 1..Len(tx.outputs)}
                /\ status' = r.status
                /\ output_value' = r.output_value
                /\ iu' = r.iu
                /\ events' = r.events
                /\ last' = r.last
                /\ replayed' = Append(replayed, position)
    /\ UNCHANGED <<used, id_inscription, inscription_output, output_inscription,
                   pc, height>>
    /\ UNCHANGED <<handlers, outside>>

\* block.rs 610: a HashMap is iterated in an order the build does not fix
RECURSIVE Orders(_)
Orders(keys) ==
    IF keys = {} THEN {<<>>}
    ELSE UNION {{<<k>> \o order : order \in Orders(keys \ {k})} : k \in keys}

\* block.rs 610-617, for one order of the iteration
cache_batch_in(cache, order) ==
    [i \in DOMAIN order |->
        IF cache[order[i]] # <<>> THEN Put(order[i], cache[order[i]])
        ELSE Delete(order[i])]

\* flush_update is at its k-th write: pc names the table written next
WriteTurn(k) ==
    IF k = 1 THEN pc = "indexing" /\ Len(replayed) = Len(block)
    ELSE pc = flush_order[k]

\* block.rs 597-626: one write of flush_update; Ok(()) follows the last one
\* and start() moves to the next height (lib.rs 198-200)
Write(table) ==
    \E k \in 1..Len(flush_order) :
       /\ flush_order[k] = table
       /\ WriteTurn(k)
       /\ \E r \in {flush_update(iu, height)} :
             /\ id_inscription' = IF table = "id_inscription" THEN r.id_inscription
                                  ELSE id_inscription
             /\ inscription_output' =
                   IF table = "inscription_output" THEN r.inscription_output
                   ELSE inscription_output
             /\ IF table = "output_inscription"
                THEN \E order \in Orders(DOMAIN iu.output_inscription_cache) :
                        output_inscription' =
                            DbWrite(output_inscription,
                                    cache_batch_in(iu.output_inscription_cache, order))
                ELSE output_inscription' = output_inscription
             /\ status' = IF table = "status" THEN r.status ELSE status
       /\ IF k < Len(flush_order)
          THEN /\ pc' = flush_order[k + 1]
               /\ UNCHANGED <<iu, height>>
          ELSE /\ pc' = "idle"
               /\ iu' = NoUpdater
               /\ height' = after_ok(height)
       /\ UNCHANGED <<node, utxo, used, output_value, block, replayed, events, last>>
       /\ UNCHANGED <<handlers, chain, outside>>

WriteIdInscription == Write("id_inscription")
WriteInscriptionOutput == Write("inscription_output")
WriteOutputInscription == Write("output_inscription")
WriteStatus == Write("status")

\* lib.rs 201-204: index_height_net returned Err, from get_block_hash or get_block
\* (pc = "idle"), from get_raw_transaction in a transaction of the block, or
\* from a write of flush_update; the updater is dropped, start() logs and sleeps
Fail ==
    /\ pc \notin {"sleeping", "killed"}
    /\ errors < MaxErrors
    /\ errors' = errors + 1
    /\ pc' = "sleeping"
    /\ iu' = NoUpdater
    /\ replayed' = <<>>
    /\ height' = after_err(height)
    /\ UNCHANGED <<node, utxo, used, status, output_value, id_inscription,
                   inscription_output, output_inscription, block, events,
                   last, handlers, chain, disk, reference, call, ordi_index>>

\* lib.rs 203 and 197: thread::sleep returns and the loop calls
\* index_height_net(next_height) again
Wake ==
    /\ pc = "sleeping"
    /\ pc' = "idle"
    /\ UNCHANGED <<node, utxo, used, status, output_value, id_inscription,
                   inscription_output, output_inscription, height, block, replayed,
                   iu, events, last, handlers, chain, outside>>

RunNext ==
    \/ FetchBlock
    \/ ReplayTransaction
    \/ WriteIdInscription
    \/ WriteInscriptionOutput
    \/ WriteOutputInscription
    \/ WriteStatus
    \/ Fail
    \/ Wake

\* lib.rs 185-207: one run of start() on an empty data directory
RunSpec == Init /\ [][RunNext]_vars

\* ------------------------------------------------------ the subsidy as a u64
\* An amount of sats as a u64 does not fit the integers of the model checker:
\* <<hi, lo>> stands for hi * 10^9 + lo, with 0 <= lo < 10^9.
Giga == 1000000000

Sats(n) == <<n \div Giga, n % Giga>>

\* epoch.rs 17 and proto/block.rs 109: 50 * COIN_VALUE = 50 * 100000000
FiftyCoins == <<5, 0>>

\* amount >> 1
Halve(amount) == <<amount[1] \div 2, (amount[2] + (amount[1] % 2) * Giga) \div 2>>

\* amount >> k for k below the width of the type (0 >> k is 0)
RECURSIVE Shr(_, _)
Shr(amount, k) ==
    IF k = 0 \/ amount = <<0, 0>> THEN amount ELSE Shr(Halve(amount), k - 1)

\* what a call returns, or that it panicked
Returned(value) == [panic |-> FALSE, value |-> value]
Panicked == [panic |-> TRUE, value |-> <<0, 0>>]

\* the >> of Rust on a u64: a shift count of 64 or more panics ("attempt to
\* shift right with overflow") in a build with overflow checks and is taken
\* modulo 64 in a build without
ShrU64(amount, k) ==
    IF k < U64_BITS THEN {Returned(Shr(amount, k))}
    ELSE {Panicked, Returned(Shr(amount, k % U64_BITS))}

\* epoch.rs 15-21
Epoch_subsidy(epoch) ==
    IF epoch < FIRST_POST_SUBSIDY THEN ShrU64(FiftyCoins, epoch)
    ELSE {Returned(Sats(0))}

\* height.rs 9-11 and epoch.rs 24-28
Height_subsidy(h) == Epoch_subsidy(h \div SUBSIDY_HALVING_INTERVAL)

\* proto/block.rs 108-110
get_base_reward(block_height) ==
    ShrU64(FiftyCoins, block_height \div SUBSIDY_HALVING_INTERVAL)

\* the heights asked for: the first two and the last of each epoch
Heights ==
    {epoch * SUBSIDY_HALVING_INTERVAL + d :
        epoch \in 0..MaxEpoch, d \in {0, 1, SUBSIDY_HALVING_INTERVAL - 1}}

SubsidyInit ==
    /\ NewOrdi
    /\ inscribe_updaters = 0
    /\ transfer_updaters = 0
    /\ ordi_index = NoIndex
    /\ \E h \in Heights : call = [f |-> "none", arg |-> h, result |-> Returned(Sats(0))]

\* Height(h).subsidy()
HeightSubsidy ==
    /\ call.f = "none"
    /\ \E r \in Height_subsidy(call.arg) :
          call' = [f |-> "Height::subsidy", arg |-> call.arg, result |-> r]
    /\ UNCHANGED <<engine, ordi_index>>

\* get_base_reward(h)
GetBaseReward ==
    /\ call.f = "none"
    /\ \E r \in get_base_reward(call.arg) :
          call' = [f |-> "get_base_reward", arg |-> call.arg, result |-> r]
    /\ UNCHANGED <<engine, ordi_index>>

SubsidyNext == HeightSubsidy \/ GetBaseReward

SubsidySpec == SubsidyInit /\ [][SubsidyNext]_vars

\* ------------------------------------------------- read_varint (index store)
\* A u64 is the sequence of its binary digits, lowest first, without zeros at
\* the high end: <<>> is 0, <<0, 1>> is 2.  A byte is a number 0..255.

\* the digits of a number that fits the integers of the model checker
RECURSIVE ToU64(_)
ToU64(v) == IF v = 0 THEN <<>> ELSE <<v % 2>> \o ToU64(v \div 2)

\* the digits without zeros at the high end
Trim(digits) ==
    LET ones == {i \in DOMAIN digits : digits[i] = 1}
    IN IF ones = {} THEN <<>>
       ELSE SubSeq(digits, 1, CHOOSE i \in ones : \A j \in ones : j <= i)

\* index.rs 215: (n << 7) | (ch_data & 0x7F) as u64
ShiftIn(n, ch_data) ==
    Trim([i \in 1..7 |-> ((ch_data % 128) \div Pow2(i - 1)) % 2] \o n)

\* index.rs 220: n += 1
PlusOne(n) ==
    LET zeros == {i \in DOMAIN n : n[i] = 0}
    IN IF zeros = {} THEN [i \in DOMAIN n |-> 0] \o <<1>>
       ELSE LET low == CHOOSE i \in zeros : \A j \in zeros : i <= j
            IN [i \in DOMAIN n |-> IF i < low THEN 0 ELSE IF i = low THEN 1 ELSE n[i]]

\* u64::MAX
U64Max == [i \in 1..U64_BITS |-> 1]

\* index.rs 212: n > u64::MAX >> 7
AboveMaxShr7(n) == Len(n) > U64_BITS - 7

\* a decoder that forgets the 1 added after a continuation byte
after_continuation_byte_same(n) == n

\* index.rs 216-220: after a byte with the bit 0x80
after_continuation_byte(n) == PlusOne(n)

\* index.rs 209-227, from byte i of the reader on; read_u8 fails with an IO
\* error when no byte is left
RECURSIVE read_varint_from(_, _, _)
read_varint_from(reader, i, n) ==
    IF i > Len(reader) THEN [kind |-> "io error", n |-> <<>>]
    ELSE IF AboveMaxShr7(n) THEN [kind |-> "size too large", n |-> <<>>]
    ELSE LET ch_data == reader[i]
             n1 == ShiftIn(n, ch_data)
         IN IF ch_data >= 128
            THEN IF n1 = U64Max THEN [kind |-> "size too large", n |-> <<>>]
                 ELSE read_varint_from(reader, i + 1, after_continuation_byte(n1))
            ELSE [kind |-> "ok", n |-> n1]

read_varint(reader) == read_varint_from(reader, 1, <<>>)

\* the bytes of the readers: those the checks of read_varint tell apart
VarintBytes == {0, 1, 126, 127, 128, 254, 255}

Tails == UNION {[1..len -> VarintBytes] : len \in 0..MaxTail}

Readers ==
    {[i \in 1..run |-> ch_data] \o tail :
        run \in 0..MaxRun, ch_data \in {128, 254, 255}, tail \in Tails}
    \cup {<<128>> \o [i \in 1..run |-> 254] \o tail : run \in 0..MaxRun, tail \in Tails}

VarintInit ==
    /\ NewOrdi
    /\ inscribe_updaters = 0
    /\ transfer_updaters = 0
    /\ ordi_index = NoIndex
    /\ \E reader \in Readers :
          call = [f |-> "none", arg |-> reader, result |-> [kind |-> "none", n |-> <<>>]]

ReadVarint ==
    /\ call.f = "none"
    /\ call' = [f |-> "read_varint", arg |-> call.arg, result |-> read_varint(call.arg)]
    /\ UNCHANGED <<engine, ordi_index>>

VarintSpec == VarintInit /\ [][ReadVarint]_vars

\* ------------------------------------------------ the index of the block files
\* A row of the node's blocks/index database: the first byte of its key, whether
\* its value can be read by from_leveldb_kv, and the fields read from it.
IndexRow(key, readable, h, st, blk_index) ==
    [key |-> key, readable |-> readable, height |-> h, status |-> st,
     blk_index |-> blk_index]

\* status values: a validity level below BLOCK_VALID_CHAIN without data, the two
\* flags alone
Rows ==
    {IndexRow("b", TRUE, h, st, blk_index) :
        h \in 1..MaxIndexHeight, st \in {1, BLOCK_VALID_CHAIN, BLOCK_HAVE_DATA},
        blk_index \in 0..MaxBlkIndex}
    \cup {IndexRow("b", FALSE, 0, 0, 0), IndexRow("f", TRUE, 1, BLOCK_HAVE_DATA, 0)}

\* the rows in the order the iterator of the database yields them
Databases == UNION {[1..len -> Rows] : len \in 0..MaxRows}

\* index.rs 203-205
is_block_index_entry(row) == row.key = "b"

\* status & flag, for a flag of one bit
BitSet(st, flag) == (st \div flag) % 2 = 1

\* an index that keeps every block row
keeps_any(st) == TRUE

\* index.rs 67: record.status & (BLOCK_VALID_CHAIN | BLOCK_HAVE_DATA | BLOCK_VALID_CHAIN) > 0
keeps(st) == BitSet(st, BLOCK_VALID_CHAIN) \/ BitSet(st, BLOCK_HAVE_DATA)

\* index.rs 179-199: the IndexEntry of a row
IndexEntryOf(row) ==
    [height |-> row.height, status |-> row.status, blk_index |-> row.blk_index]

\* index.rs 63-85: the loop over the rows from row i on; a value that cannot
\* be read ends it with the error of read_varint
RECURSIVE parse_rows(_, _, _)
parse_rows(rows, i, ix) ==
    IF i > Len(rows) THEN [result |-> "Ok", index |-> ix]
    ELSE IF ~is_block_index_entry(rows[i]) THEN parse_rows(rows, i + 1, ix)
    ELSE IF ~rows[i].readable THEN [result |-> "IOError", index |-> ix]
    ELSE LET record == IndexEntryOf(rows[i])
         IN IF ~keeps(record.status) THEN parse_rows(rows, i + 1, ix)
            ELSE parse_rows(rows, i + 1,
                   [entries |-> DbPut(ix.entries, record.height, record),
                    max_height |->
                        IF record.height > ix.max_height THEN record.height
                        ELSE ix.max_height,
                    max_height_in_blk |->
                        DbPut(ix.max_height_in_blk, record.blk_index,
                              IF record.height >
                                    DbGet(ix.max_height_in_blk, record.blk_index,
                                          record.height)
                              THEN record.height
                              ELSE DbGet(ix.max_height_in_blk, record.blk_index,
                                         record.height)),
                    blks |-> DbPut(ix.blks, record.blk_index, FALSE)])

\* index.rs 38-95; blks maps a block file to whether its reader is open
parse_index_for_ordinals(rows) ==
    LET parsed == parse_rows(rows, 1, NoIndex)
    IN IF parsed.result = "Ok"
          /\ \E h \in DOMAIN parsed.index.entries : parsed.index.entries[h].height # h
       THEN [result |-> "InvalidHeight", index |-> parsed.index]
       ELSE parsed

IndexInit ==
    /\ NewOrdi
    /\ inscribe_updaters = 0
    /\ transfer_updaters = 0
    /\ ordi_index = NoIndex
    /\ \E rows \in Databases : call = [f |-> "none", arg |-> rows, result |-> "none"]

\* index.rs 106-120, called by Ordi::new (lib.rs 89-93)
IndexNew ==
    /\ call.f = "none"
    /\ \E parsed \in {parse_index_for_ordinals(call.arg)} :
          /\ call' = [f |-> "Index::new", arg |-> call.arg, result |-> parsed.result]
          /\ ordi_index' = IF parsed.result = "Ok" THEN parsed.index ELSE NoIndex
    /\ UNCHANGED engine

\* a catch_block that never closes a file
closes_never(max_height_of_blk, h) == FALSE

\* index.rs 132: *self.max_height_in_blk.get(&blk_index).unwrap() == height
closes(max_height_of_blk, h) == max_height_of_blk = h

\* index.rs 122-138 and blk.rs 38-61, called by index_height_local (lib.rs
\* 164-173).  Without an entry the call panics ("Invalid height."); open()
\* panics when a file that is not open cannot be opened; read_block returns a
\* block or a BlkError.
CatchBlock ==
    /\ call.f \in {"Index::new", "catch_block"}
    /\ call.result \in {"Ok", "BlkError"}
    /\ \E h \in 1..MaxIndexHeight :
          IF h \notin DOMAIN ordi_index.entries
          THEN /\ call' = [f |-> "catch_block", arg |-> h, result |-> "panic"]
               /\ UNCHANGED ordi_index
          ELSE LET blk_index == ordi_index.entries[h].blk_index
               IN \/ /\ ~ordi_index.blks[blk_index]
                     /\ call' = [f |-> "catch_block", arg |-> h, result |-> "panic"]
                     /\ UNCHANGED ordi_index
                  \/ /\ \E block_read \in {"Ok", "BlkError"} :
                           call' = [f |-> "catch_block", arg |-> h,
                                    result |-> block_read]
                     /\ ordi_index' =
                           [ordi_index EXCEPT
                              !.blks[blk_index] =
                                  ~closes(ordi_index.max_height_in_blk[blk_index], h)]
    /\ UNCHANGED engine

IndexNext == IndexNew \/ CatchBlock

\* lib.rs 89-93 and 188-193: the local index is loaded, then asked for blocks
IndexSpec == IndexInit /\ [][IndexNext]_vars

\* ------------------------------------------------- handlers and their entries
\* lib.rs 248-250: when_inscribe pushes a handler; start() never returns, so
\* handlers are registered before it
WhenInscribe ==
    /\ pc = "idle" /\ chain = <<>>
    /\ inscribe_updaters < MaxHandlers
    /\ inscribe_updaters' = inscribe_updaters + 1
    /\ UNCHANGED <<node, utxo, used, status, output_value, id_inscription,
                   inscription_output, output_inscription, pc, height, block,
                   replayed, iu, events, last, transfer_updaters, chain, outside>>

\* lib.rs 252-254
WhenTransfer ==
    /\ pc = "idle" /\ chain = <<>>
    /\ transfer_updaters < MaxHandlers
    /\ transfer_updaters' = transfer_updaters + 1
    /\ UNCHANGED <<node, utxo, used, status, output_value, id_inscription,
                   inscription_output, output_inscription, pc, height, block,
                   replayed, iu, events, last, inscribe_updaters, chain, outside>>

FetchBlockForHandlers == Fetch(MaxEventTxs)

EventInit ==
    /\ Constructed
    /\ inscribe_updaters = 0
    /\ transfer_updaters = 0

EventNext ==
    \/ WhenInscribe
    \/ WhenTransfer
    \/ FetchBlockForHandlers
    \/ ReplayTransaction
    \/ FlushUpdate

\* lib.rs 248-254 and 185-207: handlers are registered, then start() runs
EventSpec == EventInit /\ [][EventNext]_vars

\* --------------------------------------------------- start() is run again
\* To compare what a second run of start() leaves in the tables with what the
\* first run leaves, both runs are behaviours of one state machine.  Kill marks
\* the point at which the process is killed: disk is what the data directory
\* holds at that point.  The first run then goes on to the end of its block as
\* the run that was not killed; Restart keeps its tables and events in
\* `reference` and starts the second run on `disk`.

\* lib.rs 91-110: status, output_value, id_inscription and inscription_output
\* are opened from files of the data directory
Persistent(st, ov, idi, io, at, h) ==
    [status |-> st, output_value |-> ov, id_inscription |-> idi,
     inscription_output |-> io, pc |-> at, height |-> h]

\* a table that keeps its rows although the data directory was removed
fresh_table_kept(table) == table

\* lib.rs 91-114: a table opened in an empty data directory, or in memory, has
\* no rows
fresh_table(table) == <<>>

\* lib.rs 111-114: output_inscription is opened with rusty_leveldb::in_memory(),
\* the new process finds no row in it
in_memory(table) == fresh_table(table)

\* lib.rs 186-196: next_height of a start() on the node's RPC (index is None)
first_height == FIRST_INSCRIPTION_HEIGHT

Kill ==
    /\ disk = NoDisk
    /\ reference = NoRun
    /\ disk' = Persistent(status, output_value, id_inscription, inscription_output,
                          pc, height)
    /\ UNCHANGED <<node, utxo, used, status, output_value, id_inscription,
                   inscription_output, output_inscription, pc, height, block,
                   replayed, iu, events, last, handlers, chain, reference, call,
                   ordi_index, errors>>

\* the tables and the events of the run that is over
Run ==
    [status |-> status, output_value |-> output_value,
     id_inscription |-> id_inscription, inscription_output |-> inscription_output,
     output_inscription |-> output_inscription, events |-> events,
     height |-> height]

\* lib.rs 83-132 and 185-196: the process is started on the data directory the
\* killed process left
Restart ==
    /\ disk # NoDisk
    /\ reference = NoRun
    /\ pc = "idle"
    /\ height = disk.height + (IF disk.pc = "idle" THEN 0 ELSE 1)
    /\ reference' = Run
    /\ status' = disk.status
    /\ output_value' = disk.output_value
    /\ id_inscription' = disk.id_inscription
    /\ inscription_output' = disk.inscription_output
    /\ output_inscription' = in_memory(output_inscription)
    /\ height' = first_height
    /\ events' = <<>>
    /\ block' = <<>>
    /\ replayed' = <<>>
    /\ last' = NoLast
    /\ UNCHANGED <<node, utxo, used, pc, iu, handlers, chain, disk, call,
                   ordi_index, errors>>

\* lib.rs 83-132 and 185-196: the process is started on an empty data directory
StartAgain ==
    /\ disk = NoDisk
    /\ reference = NoRun
    /\ pc = "idle"
    /\ height > first_height
    /\ reference' = Run
    /\ status' = fresh_table(status)
    /\ output_value' = fresh_table(output_value)
    /\ id_inscription' = fresh_table(id_inscription)
    /\ inscription_output' = fresh_table(inscription_output)
    /\ output_inscription' = in_memory(output_inscription)
    /\ height' = first_height
    /\ events' = <<>>
    /\ block' = <<>>
    /\ replayed' = <<>>
    /\ last' = NoLast
    /\ UNCHANGED <<node, utxo, used, pc, iu, handlers, chain, disk, call,
                   ordi_index, errors>>

\* the first run is followed to the end of the block it was killed in, the
\* second run up to the height the first run has reached
FetchBlockAgain ==
    /\ IF reference = NoRun THEN disk = NoDisk ELSE height < reference.height
    /\ Fetch(MaxRestartTxs)

RestartNext ==
    \/ FetchBlockAgain
    \/ ReplayTransaction
    \/ WriteIdInscription
    \/ WriteInscriptionOutput
    \/ WriteOutputInscription
    \/ WriteStatus
    \/ Kill
    \/ Restart

\* lib.rs 185-207: a run of start() that is killed, and a second run on the
\* data directory it left
RestartSpec == Init /\ [][RestartNext]_vars

ReplayNext ==
    \/ FetchBlockAgain
    \/ ReplayTransaction
    \/ WriteIdInscription
    \/ WriteInscriptionOutput
    \/ WriteOutputInscription
    \/ WriteStatus
    \/ StartAgain

\* lib.rs 185-207: a run of start(), and a second run of the same blocks on an
\* empty data directory
ReplaySpec == Init /\ [][ReplayNext]_vars


\* ------------------------------------------------- the inscription parser
\* inscription.rs 14-16 and the opcodes the parser names.  A script and every
\* other witness element is a sequence of bytes.
PROTOCOL_ID == <<111, 114, 100>>
BODY_TAG == <<>>
CONTENT_TYPE_TAG == <<1>>

\* Script::instructions(): an opcode 0x00..0x4b pushes that many of the bytes
\* after it, a push that runs past the end is an error after which the
\* iterator is empty, every other byte drawn here is an opcode of its own
\* (OP_PUSHDATA1/2/4 are not drawn)
PushBytes(bytes) == [kind |-> "PushBytes", data |-> bytes]
Op(code) == [kind |-> "Op", data |-> <<code>>]
ScriptError == [kind |-> "Err", data |-> <<>>]

RECURSIVE instructions(_)
instructions(script) ==
    IF script = <<>> THEN <<>>
    ELSE IF Head(script) <= OP_PUSHBYTES_75
         THEN IF Len(script) - 1 >= Head(script)
              THEN <<PushBytes(SubSeq(script, 2, Head(script) + 1))>>
                   \o instructions(SubSeq(script, Head(script) + 2, Len(script)))
              ELSE <<ScriptError>>
         ELSE <<Op(Head(script))>> \o instructions(Tail(script))

\* the results of the parser's methods: a value and the place of the iterator,
\* or an error and the place of the iterator
ParsedOk(value, pos) == [ok |-> TRUE, error |-> "", value |-> value, pos |-> pos]
ParsedErr(error, pos) == [ok |-> FALSE, error |-> error, value |-> <<>>, pos |-> pos]

\* lines 176-181
advance(ins, pos) ==
    IF pos > Len(ins) THEN ParsedErr("NoInscription", pos)
    ELSE IF ins[pos].kind = "Err" THEN ParsedErr("Script", pos + 1)
    ELSE ParsedOk(ins[pos], pos + 1)

\* lines 184-188
inscription_envelope_header == <<PushBytes(<<>>), Op(OP_IF), PushBytes(PROTOCOL_ID)>>

\* lines 198-206: the value is whether every instruction matched
RECURSIVE match_instructions(_, _, _, _)
match_instructions(ins, pos, expected, k) ==
    IF k > Len(expected) THEN ParsedOk(<<TRUE>>, pos)
    ELSE LET next == advance(ins, pos)
         IN IF ~next.ok THEN next
            ELSE IF next.value # expected[k] THEN ParsedOk(<<FALSE>>, next.pos)
            ELSE match_instructions(ins, next.pos, expected, k + 1)

\* lines 183-196
RECURSIVE advance_into_inscription_envelope(_, _)
advance_into_inscription_envelope(ins, pos) ==
    LET matched == match_instructions(ins, pos, inscription_envelope_header, 1)
    IN IF ~matched.ok THEN matched
       ELSE IF matched.value[1] THEN matched
       ELSE advance_into_inscription_envelope(ins, matched.pos)

\* lines 208-213
expect_push(ins, pos) ==
    LET next == advance(ins, pos)
    IN IF ~next.ok THEN next
       ELSE IF next.value.kind = "PushBytes" THEN ParsedOk(next.value.data, next.pos)
       ELSE ParsedErr("InvalidInscription", next.pos)

\* a parser that takes the end of the script for the instruction it looks for
accept_at_end(ins, pos, instruction) ==
    IF pos > Len(ins) THEN ParsedOk(<<TRUE>>, pos)
    ELSE IF ins[pos].kind = "Err" THEN ParsedErr("Script", pos)
    ELSE IF ins[pos] = instruction THEN ParsedOk(<<TRUE>>, pos + 1)
    ELSE ParsedOk(<<FALSE>>, pos)

\* lines 215-228: peek, and advance past the instruction when it is the one
accept(ins, pos, instruction) ==
    IF pos > Len(ins) THEN ParsedOk(<<FALSE>>, pos)
    ELSE IF ins[pos].kind = "Err" THEN ParsedErr("Script", pos)
    ELSE IF ins[pos] = instruction THEN ParsedOk(<<TRUE>>, pos + 1)
    ELSE ParsedOk(<<FALSE>>, pos)

\* lines 144-147: the pushes up to OP_ENDIF
RECURSIVE read_body(_, _, _)
read_body(ins, pos, body) ==
    LET accepted == accept(ins, pos, Op(OP_ENDIF))
    IN IF ~accepted.ok THEN accepted
       ELSE IF accepted.value[1] THEN ParsedOk(body, accepted.pos)
       ELSE LET push == expect_push(ins, pos)
            IN IF ~push.ok THEN push
               ELSE read_body(ins, push.pos, body \o push.value)

\* a parser that lets a later field of the same tag replace the earlier one
repeated_tag_taken(fields, tag) == FALSE

\* line 152
repeated_tag(fields, tag) == tag \in DOMAIN fields

\* lines 141-160: fields is the BTreeMap of the tags read so far
RECURSIVE read_fields(_, _, _)
read_fields(ins, pos, fields) ==
    LET next == advance(ins, pos)
    IN IF ~next.ok THEN next
       ELSE IF next.value.kind = "PushBytes" /\ next.value.data = BODY_TAG
       THEN LET body == read_body(ins, next.pos, <<>>)
            IN IF ~body.ok THEN body
               ELSE ParsedOk(DbPut(fields, BODY_TAG, body.value), body.pos)
       ELSE IF next.value.kind = "PushBytes"
       THEN IF repeated_tag(fields, next.value.data)
            THEN ParsedErr("InvalidInscription", next.pos)
            ELSE LET push == expect_push(ins, next.pos)
                 IN IF ~push.ok THEN push
                    ELSE read_fields(ins, push.pos,
                                     DbPut(fields, next.value.data, push.value))
       ELSE IF next.value = Op(OP_ENDIF) THEN ParsedOk(fields, next.pos)
       ELSE ParsedErr("InvalidInscription", next.pos)

\* Option<Vec<u8>>: fields.remove(tag)
None == [some |-> FALSE, bytes |-> <<>>]
Some(bytes) == [some |-> TRUE, bytes |-> bytes]
remove(fields, tag) == IF tag \in DOMAIN fields THEN Some(fields[tag]) ELSE None

\* lines 165-171
unrecognized_even_field(fields) ==
    \E tag \in DOMAIN fields \ {BODY_TAG, CONTENT_TYPE_TAG} :
        tag # <<>> /\ tag[1] % 2 = 0

\* lines 136-174
parse_one_inscription(ins, pos) ==
    LET envelope == advance_into_inscription_envelope(ins, pos)
    IN IF ~envelope.ok THEN envelope
       ELSE LET read == read_fields(ins, envelope.pos, <<>>)
            IN IF ~read.ok THEN read
               ELSE IF unrecognized_even_field(read.value)
               THEN ParsedErr("UnrecognizedEvenField", read.pos)
               ELSE ParsedOk([body |-> remove(read.value, BODY_TAG),
                              content_type |-> remove(read.value, CONTENT_TYPE_TAG)],
                             read.pos)

\* lines 123-134: the Vec<Result<Inscription>> of a script
RECURSIVE parse_inscriptions(_, _)
parse_inscriptions(ins, pos) ==
    LET current == parse_one_inscription(ins, pos)
    IN IF ~current.ok /\ current.error = "NoInscription" THEN <<>>
       ELSE <<[ok |-> current.ok, error |-> current.error, value |-> current.value]>>
            \o parse_inscriptions(ins, current.pos)

\* lines 123-134, turn by turn: where each parse_one_inscription starts and
\* what it returns, the one that returns NoInscription last; turns is the
\* number of turns of the loop that are followed
RECURSIVE parse_attempts(_, _, _)
\* lines 127-131 of a turn whose parse_one_inscription returned current
after_attempt(ins, pos, turns, current) ==
    <<[from |-> pos, current |-> current]>>
    \o (IF ~current.ok /\ current.error = "NoInscription" THEN <<>>
        ELSE parse_attempts(ins, current.pos, turns - 1))

parse_attempts(ins, pos, turns) ==
    IF turns = 0 THEN <<>>
    ELSE after_attempt(ins, pos, turns, parse_one_inscription(ins, pos))

\* lines 119-120, Result<Vec<_>>::from_iter: the first Err, or every value
collect(results) ==
    IF \E k \in DOMAIN results : ~results[k].ok
    THEN [ok |-> FALSE,
          error |-> results[CHOOSE k \in DOMAIN results :
                               ~results[k].ok /\ \A j \in 1..(k - 1) : results[j].ok].error,
          value |-> <<>>]
    ELSE [ok |-> TRUE, error |-> "",
          value |-> [k \in DOMAIN results |-> results[k].value]]

\* lines 97-100
annex_of(witness) ==
    witness[Len(witness)] # <<>> /\ witness[Len(witness)][1] = TAPROOT_ANNEX_PREFIX

\* the script taken next to the last element, annex or not
script_index_before_last(annex, len) == len - 2

\* lines 108-112, counted from 0
script_index(annex, len) == IF annex THEN len - 1 ELSE len - 2

\* lines 88-121
InscriptionParser_parse(witness) ==
    IF witness = <<>> THEN [ok |-> FALSE, error |-> "EmptyWitness", value |-> <<>>]
    ELSE IF Len(witness) = 1 THEN [ok |-> FALSE, error |-> "KeyPathSpend", value |-> <<>>]
    ELSE IF Len(witness) = 2 /\ annex_of(witness)
    THEN [ok |-> FALSE, error |-> "KeyPathSpend", value |-> <<>>]
    ELSE collect(parse_inscriptions(
             instructions(witness[script_index(annex_of(witness), Len(witness)) + 1]), 1))

\* lines 64-74: the inscriptions of input index, numbered from 0
inscriptions_of_input(index, inscriptions) ==
    [k \in DOMAIN inscriptions |->
        [inscription |-> inscriptions[k], tx_in_index |-> index, tx_in_offset |-> k - 1]]

\* an input that cannot be parsed ends the transaction's list
RECURSIVE Inscription_from_transaction_until_error(_, _)
Inscription_from_transaction_until_error(inputs, index) ==
    IF index >= Len(inputs) THEN <<>>
    ELSE IF ~inputs[index + 1].has_witness
    THEN Inscription_from_transaction_until_error(inputs, index + 1)
    ELSE LET parsed == InscriptionParser_parse(inputs[index + 1].witness)
         IN IF ~parsed.ok THEN <<>>
            ELSE inscriptions_of_input(index, parsed.value)
                 \o Inscription_from_transaction_until_error(inputs, index + 1)

\* lines 55-78, over tx.value.inputs from input index on
RECURSIVE Inscription_from_transaction(_, _)
Inscription_from_transaction(inputs, index) ==
    IF index >= Len(inputs) THEN <<>>
    ELSE IF ~inputs[index + 1].has_witness
    THEN Inscription_from_transaction(inputs, index + 1)
    ELSE LET parsed == InscriptionParser_parse(inputs[index + 1].witness)
         IN IF ~parsed.ok THEN Inscription_from_transaction(inputs, index + 1)
            ELSE inscriptions_of_input(index, parsed.value)
                 \o Inscription_from_transaction(inputs, index + 1)

\* ------------------------------------------ the parser's inputs and calls
\* a push of at most 75 bytes, as a script writes it
Push(bytes) == <<Len(bytes)>> \o bytes
EnvelopeHeader == <<0, OP_IF>> \o Push(PROTOCOL_ID)
\* an opcode that is no push and no OP_ENDIF (OP_CHECKSIG)
OtherOp == <<172>>

RECURSIVE Concat(_)
Concat(seqs) == IF seqs = <<>> THEN <<>> ELSE Head(seqs) \o Concat(Tail(seqs))

\* sequences of at most n elements of a set
SeqsUpTo(S, n) == UNION {[1..len -> S] : len \in 0..n}

\* an envelope as it is written: fields of a tag and a value that is a push or
\* another opcode, then OP_ENDIF, another opcode or the end of the script,
\* after the body tag and its pushes or without them
EnvelopeFields ==
    [tag : {<<1>>, <<2>>, <<3>>}, push : {TRUE}, value : {<<7>>}]
    \cup [tag : {<<1>>, <<2>>, <<3>>}, push : {FALSE}, value : {<<>>}]
    \cup [tag : {<<1>>}, push : {TRUE}, value : {<<>>}]
EnvelopeShapeSet ==
    [fields : SeqsUpTo(EnvelopeFields, MaxFields),
     has_body : {FALSE}, body : {<<>>}, end : {"ENDIF", "op", "eof"}]
    \cup [fields : SeqsUpTo(EnvelopeFields, MaxFields),
          has_body : {TRUE}, body : SeqsUpTo({<<7>>, <<8>>}, MaxBodyPushes),
          end : {"ENDIF", "op", "eof"}]
NoEnvelope == [fields |-> <<>>, has_body |-> FALSE, body |-> <<>>, end |-> "none"]

EnvelopeScript(shape) ==
    EnvelopeHeader
    \o Concat([k \in DOMAIN shape.fields |->
                  Push(shape.fields[k].tag)
                  \o (IF shape.fields[k].push THEN Push(shape.fields[k].value)
                      ELSE OtherOp)])
    \o (IF shape.has_body
        THEN Push(BODY_TAG) \o Concat([k \in DOMAIN shape.body |-> Push(shape.body[k])])
        ELSE <<>>)
    \o (IF shape.end = "ENDIF" THEN <<OP_ENDIF>>
        ELSE IF shape.end = "op" THEN OtherOp ELSE <<>>)

\* envelopes a script is put together from: two well-formed ones, one with a
\* tag twice, one with an unknown even tag, one with an opcode for a value
Field(tag, value) == [tag |-> tag, push |-> TRUE, value |-> value]
Envelope(fields, body) ==
    [fields |-> fields, has_body |-> TRUE, body |-> <<body>>, end |-> "ENDIF"]
SampleEnvelopes ==
    [good7 |-> Envelope(<<Field(<<1>>, <<7>>)>>, <<7>>),
     good8 |-> Envelope(<<>>, <<8>>),
     duplicate |-> Envelope(<<Field(<<1>>, <<7>>), Field(<<1>>, <<7>>)>>, <<7>>),
     even |-> Envelope(<<Field(<<2>>, <<7>>)>>, <<7>>),
     nonpush |-> Envelope(<<[tag |-> <<1>>, push |-> FALSE, value |-> <<>>]>>, <<7>>)]
WellFormed == {"good7", "good8"}

\* a control block, a signature (as a script, a push longer than the element),
\* the empty element, an annex, an annex that reads as a script with an
\* envelope, and two scripts with one envelope each
ControlBlock == <<192>>
WitnessElements ==
    {<<>>, ControlBlock, <<48, 1>>, <<TAPROOT_ANNEX_PREFIX>>,
     <<TAPROOT_ANNEX_PREFIX>> \o EnvelopeScript(Envelope(<<>>, <<9>>)),
     EnvelopeScript(SampleEnvelopes.good7), EnvelopeScript(SampleEnvelopes.good8)}

\* tx.value.inputs[i].witness is an Option<Witness>
Input(witness) == [has_witness |-> TRUE, witness |-> witness]
NoWitness == [has_witness |-> FALSE, witness |-> <<>>]
ScriptInput(names) ==
    Input(<<Concat([k \in DOMAIN names |-> EnvelopeScript(SampleEnvelopes[names[k]])]),
            ControlBlock>>)
SampleInputs ==
    {NoWitness, Input(<<>>), Input(<<ControlBlock>>), Input(<<ControlBlock, ControlBlock>>),
     ScriptInput(<<"good7">>), ScriptInput(<<"good8", "good7">>),
     ScriptInput(<<"even">>), ScriptInput(<<"good7", "duplicate">>)}

ParserArg(inputs, shape, names) ==
    [inputs |-> inputs, envelope |-> shape, envelopes |-> names]

\* what the parser is called with: one input and its witness, a transaction of
\* several inputs, a script of one envelope, a script of several envelopes
ParserArgs ==
    {ParserArg(<<Input(witness)>>, NoEnvelope, <<>>) :
        witness \in SeqsUpTo(WitnessElements, MaxWitness)}
    \cup {ParserArg(inputs, NoEnvelope, <<>>) :
             inputs \in SeqsUpTo(SampleInputs, MaxInputs)}
    \cup {ParserArg(<<Input(<<EnvelopeScript(shape), ControlBlock>>)>>, shape, <<>>) :
             shape \in EnvelopeShapeSet}
    \cup {ParserArg(<<ScriptInput(names)>>, NoEnvelope, names) :
             names \in SeqsUpTo(DOMAIN SampleEnvelopes, MaxEnvelopes) \ {<<>>}}

ParserInit ==
    /\ NewOrdi
    /\ inscribe_updaters = 0
    /\ transfer_updaters = 0
    /\ ordi_index = NoIndex
    /\ \E arg \in ParserArgs : call = [f |-> "none", arg |-> arg, result |-> <<>>]

\* inscription.rs 88-121 on the witness of an input
Parse ==
    /\ call.f = "none"
    /\ \E i \in DOMAIN call.arg.inputs :
          /\ call.arg.inputs[i].has_witness
          /\ call' = [f |-> "parse", arg |-> call.arg,
                      result |-> [index |-> i - 1,
                                  parsed |-> InscriptionParser_parse(
                                                 call.arg.inputs[i].witness)]]
    /\ UNCHANGED <<engine, ordi_index>>

\* inscription.rs 136-174 at the start of the script of the first input
ParseOneInscription ==
    /\ call.f = "none"
    /\ call.arg.inputs # <<>>
    /\ Len(call.arg.inputs[1].witness) = 2
    /\ call' = [f |-> "parse_one_inscription", arg |-> call.arg,
                result |-> parse_one_inscription(
                               instructions(call.arg.inputs[1].witness[1]), 1)]
    /\ UNCHANGED <<engine, ordi_index>>

\* inscription.rs 123-134 on a script that ends after any of the instructions
\* of the script of the first input
ParseInscriptionsOfScript ==
    /\ call.f = "none"
    /\ call.arg.inputs # <<>>
    /\ Len(call.arg.inputs[1].witness) = 2
    /\ \E ins \in {instructions(call.arg.inputs[1].witness[1])} :
          \E len \in 0..Len(ins) :
             call' = [f |-> "parse_inscriptions", arg |-> call.arg,
                      result |-> [instructions |-> SubSeq(ins, 1, len),
                                  attempts |-> parse_attempts(SubSeq(ins, 1, len), 1, len + 2)]]
    /\ UNCHANGED <<engine, ordi_index>>

\* instructions a script may have before an envelope: OP_FALSE, OP_IF, the
\* push of the protocol id, another opcode
MaxPreceding == 2
PrecedingInstructions == {<<0>>, <<OP_IF>>, Push(PROTOCOL_ID), OtherOp}

\* inscription.rs 183-196 at the start of a script: the script of the first
\* input after up to MaxPreceding instructions
AdvanceIntoInscriptionEnvelope ==
    /\ call.f = "none"
    /\ call.arg.inputs # <<>>
    /\ Len(call.arg.inputs[1].witness) = 2
    /\ \E preceding \in SeqsUpTo(PrecedingInstructions, MaxPreceding) :
          \E ins \in {instructions(Concat(preceding) \o call.arg.inputs[1].witness[1])} :
             call' = [f |-> "advance_into_inscription_envelope", arg |-> call.arg,
                      result |-> [instructions |-> ins,
                                  advanced |-> advance_into_inscription_envelope(ins, 1)]]
    /\ UNCHANGED <<engine, ordi_index>>

\* inscription.rs 55-78
FromTransaction ==
    /\ call.f = "none"
    /\ call' = [f |-> "from_transaction", arg |-> call.arg,
                result |-> Inscription_from_transaction(call.arg.inputs, 0)]
    /\ UNCHANGED <<engine, ordi_index>>

ParserNext == Parse \/ ParseOneInscription \/ ParseInscriptionsOfScript
              \/ AdvanceIntoInscriptionEnvelope \/ FromTransaction

\* block.rs 231: Inscription::from_transaction(tx) and what it calls
ParserSpec == ParserInit /\ [][ParserNext]_vars

\* ------------------------------------------------- the output_value table
\* The pre-population pass and the engine write the same table.  The pass runs
\* before start(); start() then replays blocks with a node whose
\* get_raw_transaction may fail, and tries a height again after an Err.  Here
\* node holds, besides the outputs that exist before any replay, the
\* transactions that have been replayed in full at least once.

\* lib.rs 226-229: one put for each output of the transaction
output_puts(tx) ==
    [i \in 1..Len(tx.outputs) |-> Put(OutputKey(tx.hash, i - 1), tx.outputs[i])]

\* lib.rs 231-242: one delete for each input that is not null
input_deletes(tx) ==
    LET spent == SelectSeq(tx.inputs, LAMBDA outpoint : ~is_null(outpoint))
    IN [i \in 1..Len(spent) |-> Delete(OutputKey(spent[i][1], spent[i][2]))]

\* the batch without its deletes
index_output_value_in_transaction_puts_only(table, tx) ==
    DbWrite(table, output_puts(tx))

\* lib.rs 224-246: the table after output_value.write(wb)
index_output_value_in_transaction(table, tx) ==
    DbWrite(table, output_puts(tx) \o input_deletes(tx))

\* the transactions of the blocks below FIRST_INSCRIPTION_HEIGHT: a coinbase,
\* or a transaction spending outputs of those blocks and paying out no more
\* than it spends
EarlyTransactions ==
    {[hash |-> FirstTxid + used, inputs |-> <<NullOutpoint>>, outputs |-> outputs,
      envelopes |-> <<0>>] : outputs \in {<<2>>, <<1, 1>>}}
    \cup
    {[hash |-> FirstTxid + used, inputs |-> c[1], outputs |-> c[2],
      envelopes |-> [i \in 1..Len(c[1]) |-> 0]] :
        c \in {d \in InputChoices \X OutputShapes :
                 /\ \A i \in 1..Len(d[1]) : d[1][i][1] \notin DOMAIN ExternalTxs
                 /\ SumSeq(d[2]) <=
                       SumSeq([i \in 1..Len(d[1]) |-> ChainValue(d[1][i])])}}

\* lib.rs 209-222: one iteration of the inner loop of index_output_value
IndexOutputValueInTransaction ==
    /\ pc = "idle"
    /\ chain = <<>>
    /\ errors = 0
    /\ used < MaxEarlyTxs
    /\ \E tx \in EarlyTransactions :
          /\ node' = node @@ (tx.hash :> tx.outputs)
          /\ utxo' = (utxo \ Range(tx.inputs))
                     \cup {<<tx.hash, v - 1>> : v \in 1..Len(tx.outputs)}
          /\ output_value' = index_output_value_in_transaction(output_value, tx)
    /\ used' = used + 1
    /\ UNCHANGED <<status, id_inscription, inscription_output, output_inscription,
                   pc, height, block, replayed, iu, events, last, chain>>
    /\ UNCHANGED <<handlers, outside>>

FetchBlockWithValues == Fetch(MaxValueTxs)

\* the transaction the node serves at a position: the one it served before, or
\* a new one
ServedTransactions(position) ==
    IF block[position] # NoTx THEN {block[position]} ELSE Transactions(position)

\* block.rs 115-124 with every get_raw_transaction of the transaction
\* answered: one iteration of the loop of index_transactions
ReplayTransactionWithValues ==
    /\ pc = "indexing"
    /\ Len(replayed) < Len(block)
    /\ LET position == replay_order(Len(block))[Len(replayed) + 1]
       IN \E tx \in ServedTransactions(position) :
             \E r \in {index_inscriptions_in_transaction(tx)} :
                /\ block' = [block EXCEPT ![position] = tx]
                /\ chain' = [chain EXCEPT ![ChainIndex(height)][position] = tx]
                /\ node' = IF tx.hash \in DOMAIN node THEN node
                           ELSE node @@ (tx.hash :> tx.outputs)
                /\ utxo' = IF tx.hash \in DOMAIN node \/ position = 1 THEN utxo
                           ELSE (utxo \ Range(tx.inputs))
                                \cup {<<tx.hash, v - 1>> : v \in 1..Len(tx.outputs)}
                /\ status' = r.status
                /\ output_value' = r.output_value
                /\ iu' = r.iu
                /\ events' = r.events
                /\ last' = r.last
                /\ replayed' = Append(replayed, position)
    /\ UNCHANGED <<used, id_inscription, inscription_output, output_inscription,
                   pc, height>>
    /\ UNCHANGED <<handlers, outside>>

\* block.rs 309-312, 123 and lib.rs 201-204: get_raw_transaction returns Err
\* for an input of the transaction, `?` hands it up to start(), the updater is
\* dropped
GetRawTransactionFails ==
    /\ pc = "indexing"
    /\ Len(replayed) < Len(block)
    /\ errors < MaxValueErrors
    /\ LET position == replay_order(Len(block))[Len(replayed) + 1]
       IN \E tx \in ServedTransactions(position) :
             /\ \E i \in 1..Len(tx.inputs) :
                   /\ ~is_null(tx.inputs[i])
                   /\ calls_rpc(OutputKey(tx.inputs[i][1], tx.inputs[i][2]))
             /\ block' = [block EXCEPT ![position] = tx]
             /\ chain' = [chain EXCEPT ![ChainIndex(height)][position] = tx]
    /\ errors' = errors + 1
    /\ pc' = "sleeping"
    /\ iu' = NoUpdater
    /\ replayed' = <<>>
    /\ height' = after_err(height)
    /\ UNCHANGED <<node, utxo, used, status, output_value, id_inscription,
                   inscription_output, output_inscription, events, last,
                   handlers, disk, reference, call, ordi_index>>

\* block.rs 597-600, 126 and lib.rs 201-204: the first write of flush_update
\* returns Err
FlushUpdateFails ==
    /\ pc = "indexing"
    /\ Len(replayed) = Len(block)
    /\ errors < MaxValueErrors
    /\ errors' = errors + 1
    /\ pc' = "sleeping"
    /\ iu' = NoUpdater
    /\ replayed' = <<>>
    /\ height' = after_err(height)
    /\ UNCHANGED <<node, utxo, used, status, output_value, id_inscription,
                   inscription_output, output_inscription, block, events, last,
                   handlers, chain, disk, reference, call, ordi_index>>

ValueNext ==
    \/ IndexOutputValueInTransaction
    \/ FetchBlockWithValues
    \/ ReplayTransactionWithValues
    \/ GetRawTransactionFails
    \/ FlushUpdate
    \/ FlushUpdateFails
    \/ Wake

\* lib.rs 209-222 and 185-207: index_output_value, then start()
ValueSpec == Init /\ [][ValueNext]_vars

\* ------------------------------------------------------- start() as a whole
\* start() with or without a local index: the for loop over the heights the
\* local index holds, then the loop over the node's blocks.  call holds the
\* call of start(): its first height and whether it still runs.

\* the local index of a block directory that ends at max: one block file, an
\* entry for every height start() can ask it for
LocalIndex(max) ==
    [entries |-> [h \in FIRST_INSCRIPTION_HEIGHT..max |->
                     [height |-> h, status |-> BLOCK_HAVE_DATA, blk_index |-> 0]],
     max_height |-> max,
     max_height_in_blk |-> (0 :> max),
     blks |-> (0 :> FALSE)]

\* Ordi::new (lib.rs 89-93): no btc_data_dir, or the index of one that ends up
\* to MaxShortfall + 1 heights before FIRST_INSCRIPTION_HEIGHT or up to
\* MaxLocalHeights heights from it on
LocalIndexes ==
    {NoIndex} \cup
    {LocalIndex(max) :
        max \in (FIRST_INSCRIPTION_HEIGHT - 1 - MaxShortfall)
                ..(FIRST_INSCRIPTION_HEIGHT - 1 + MaxLocalHeights)}

\* lib.rs 186-193: the first height start() indexes
start_height(index) ==
    IF index = NoIndex THEN FIRST_INSCRIPTION_HEIGHT
    ELSE IF FIRST_INSCRIPTION_HEIGHT < index.max_height + 1
         THEN FIRST_INSCRIPTION_HEIGHT
         ELSE index.max_height + 1

StartInit ==
    /\ NewOrdi
    /\ inscribe_updaters = 1
    /\ transfer_updaters = 1
    /\ call = NoCall
    /\ ordi_index \in LocalIndexes

\* lib.rs 185-193: start() is called
Start ==
    /\ call.f = "none"
    /\ call' = [f |-> "start", arg |-> start_height(ordi_index), result |-> "running"]
    /\ height' = start_height(ordi_index)
    /\ UNCHANGED <<node, utxo, used, status, output_value, id_inscription,
                   inscription_output, output_inscription, pc, block, replayed,
                   iu, events, last, handlers, chain, disk, reference,
                   ordi_index, errors>>

Running == call.f = "start" /\ call.result = "running"

\* lib.rs 190-192: height is a height of the for loop
InForLoop == ordi_index # NoIndex /\ height <= ordi_index.max_height

\* an Err of index_height_local taken like one of index_height_net
local_err_retried(result) == result

\* lib.rs 191: index_height_local(height)?
local_err(result) == "Err"

\* the blocks served to this start(), counted from its first height
StartChainIndex(h) == h - call.arg + 1

\* lib.rs 169-172 and 176-182: the block at `height` is there and
\* index_transactions builds the InscriptionUpdater (block.rs 99-113); a
\* height asked for again gets the same block
ServeBlock ==
    /\ IF StartChainIndex(height) <= Len(chain)
       THEN /\ block' = chain[StartChainIndex(height)]
            /\ UNCHANGED <<used, chain>>
       ELSE \E n \in 1..(MaxStartTxs - used) :
               /\ block' = [position \in 1..n |-> NoTx]
               /\ used' = used + n
               /\ chain' = Append(chain, [position \in 1..n |-> NoTx])
    /\ iu' = NewInscriptionUpdater(status, height)
    /\ replayed' = <<>>
    /\ pc' = "indexing"
    /\ UNCHANGED <<node, utxo, status, output_value, id_inscription,
                   inscription_output, output_inscription, height, events, last,
                   handlers, disk, reference>>

\* index.rs 128-135: the block file is open while catch_block reads, and is
\* closed after its highest block
after_catch_block(index, h) ==
    [index EXCEPT
       !.blks[index.entries[h].blk_index] =
           ~closes(index.max_height_in_blk[index.entries[h].blk_index], h)]

\* lib.rs 164-173 and index.rs 122-138: catch_block opens the block file,
\* reads the block and closes the file after its highest block; a block that
\* cannot be read is an Err, which start() returns; a file that cannot be
\* opened is a panic
IndexHeightLocal ==
    /\ Running
    /\ pc = "idle"
    /\ InForLoop
    /\ \/ /\ ServeBlock
          /\ ordi_index' = after_catch_block(ordi_index, height)
          /\ UNCHANGED <<call, errors>>
       \/ /\ errors < MaxStartErrors
          /\ errors' = errors + 1
          /\ ordi_index' = after_catch_block(ordi_index, height)
          /\ call' = [call EXCEPT !.result = local_err(@)]
          /\ UNCHANGED <<node, utxo, used, status, output_value, id_inscription,
                         inscription_output, output_inscription, pc, height,
                         block, replayed, iu, events, last, handlers, chain,
                         disk, reference>>
       \/ /\ ~ordi_index.blks[ordi_index.entries[height].blk_index]
          /\ call' = [call EXCEPT !.result = "panic"]
          /\ UNCHANGED <<node, utxo, used, status, output_value, id_inscription,
                         inscription_output, output_inscription, pc, height,
                         block, replayed, iu, events, last, handlers, chain,
                         disk, reference, ordi_index, errors>>

\* lib.rs 175-183: get_block_hash and get_block succeed
IndexHeightNet ==
    /\ Running
    /\ pc = "idle"
    /\ ~InForLoop
    /\ ServeBlock
    /\ UNCHANGED <<call, ordi_index, errors>>

\* lib.rs 177-178 and 201-204: get_block_hash or get_block returns Err
GetBlockFails ==
    /\ Running
    /\ pc = "idle"
    /\ ~InForLoop
    /\ errors < MaxStartErrors
    /\ errors' = errors + 1
    /\ pc' = "sleeping"
    /\ UNCHANGED <<node, utxo, used, status, output_value, id_inscription,
                   inscription_output, output_inscription, height, block,
                   replayed, iu, events, last, handlers, chain, disk, reference,
                   call, ordi_index>>

\* block.rs 115-124: one iteration of the loop of index_transactions
ReplayTransactionOfStart ==
    /\ pc = "indexing"
    /\ Len(replayed) < Len(block)
    /\ LET position == replay_order(Len(block))[Len(replayed) + 1]
           known == block[position] # NoTx
       IN \E tx \in IF known THEN {block[position]} ELSE Transactions(position) :
             \E r \in {index_inscriptions_in_transaction(tx)} :
                /\ block' = [block EXCEPT ![position] = tx]
                /\ chain' = [chain EXCEPT ![StartChainIndex(height)][position] = tx]
                /\ node' = IF known THEN node ELSE node @@ (tx.hash :> tx.outputs)
                /\ utxo' = IF known \/ position = 1 THEN utxo
                           ELSE (utxo \ Range(tx.inputs))
                                \cup {<<tx.hash, v - 1>> : v \in 1..Len(tx.outputs)}
                /\ status' = r.status
                /\ output_value' = r.output_value
                /\ iu' = r.iu
                /\ events' = r.events
                /\ last' = r.last
                /\ replayed' = Append(replayed, position)
    /\ UNCHANGED <<used, id_inscription, inscription_output, output_inscription,
                   pc, height>>
    /\ UNCHANGED <<handlers, outside>>

\* block.rs 123 and 126, lib.rs 172, 191 and 201-204: index_transactions
\* returns Err, from get_raw_transaction in a transaction of the block or from
\* a write of flush_update; the updater is dropped.  In the for loop start()
\* returns the Err, in the loop that follows it logs and sleeps.
IndexTransactionsFails ==
    /\ pc = "indexing"
    /\ errors < MaxStartErrors
    /\ errors' = errors + 1
    /\ iu' = NoUpdater
    /\ replayed' = <<>>
    /\ IF InForLoop
       THEN /\ call' = [call EXCEPT !.result = local_err(@)]
            /\ pc' = "idle"
       ELSE /\ pc' = "sleeping"
            /\ UNCHANGED call
    /\ UNCHANGED <<node, utxo, used, status, output_value, id_inscription,
                   inscription_output, output_inscription, height, block, events,
                   last, handlers, chain, disk, reference, ordi_index>>

StartNext ==
    \/ Start
    \/ IndexHeightLocal
    \/ IndexHeightNet
    \/ GetBlockFails
    \/ ReplayTransactionOfStart
    \/ IndexTransactionsFails
    \/ FlushUpdate
    \/ Wake

\* lib.rs 185-207
StartSpec == StartInit /\ [][StartNext]_vars

\* ------------------------------------------------- a scan of the local index
\* The local index is loaded from a store of up to MaxScanRows rows, then
\* catch_block is called for the indexed heights in ascending order, as the
\* loops of index_output_value (lib.rs 214-219) and start() (lib.rs 190-192)
\* do; the scan ends with the first call that does not return a block.

ScanDatabases == UNION {[1..len -> Rows] : len \in 0..MaxScanRows}

ScanInit ==
    /\ NewOrdi
    /\ inscribe_updaters = 0
    /\ transfer_updaters = 0
    /\ ordi_index = NoIndex
    /\ \E rows \in ScanDatabases : call = [f |-> "none", arg |-> rows, result |-> "none"]

\* the indexed heights the scan has not asked for yet
HeightsToScan ==
    {h \in DOMAIN ordi_index.entries : call.f = "catch_block" => h > call.arg}

\* index.rs 122-138 and blk.rs 38-61: catch_block for the next height
ScanCatchBlock ==
    /\ call.f \in {"Index::new", "catch_block"}
    /\ call.result = "Ok"
    /\ HeightsToScan # {}
    /\ LET h == CHOOSE x \in HeightsToScan : \A y \in HeightsToScan : x <= y
       IN \/ /\ ~ordi_index.blks[ordi_index.entries[h].blk_index]
             /\ call' = [f |-> "catch_block", arg |-> h, result |-> "panic"]
             /\ UNCHANGED ordi_index
          \/ /\ \E block_read \in {"Ok", "BlkError"} :
                   call' = [f |-> "catch_block", arg |-> h, result |-> block_read]
             /\ ordi_index' = after_catch_block(ordi_index, h)
    /\ UNCHANGED engine

ScanNext == IndexNew \/ ScanCatchBlock

ScanSpec == ScanInit /\ [][ScanNext]_vars

\* ------------------------------------------------- lookup by block hash
\* The block-index store holds rows under keys of one prefix byte followed by
\* a hash; a hash is one byte here.  The iterator of the store yields the keys
\* in bytewise order.

\* b'b', the prefix of a block row, between two other prefixes of the store
BlockPrefix == <<98>>
OtherPrefixes == {<<70>>, <<102>>}
HashBytes == {<<5>>, <<98>>, <<150>>}
StoreKeys == {prefix \o hash : prefix \in {BlockPrefix} \cup OtherPrefixes,
                               hash \in HashBytes}

\* a <= b in the bytewise order of the store's comparator
RECURSIVE bytes_le(_, _)
bytes_le(a, b) ==
    IF a = <<>> THEN TRUE
    ELSE IF b = <<>> THEN FALSE
    ELSE IF Head(a) # Head(b) THEN Head(a) < Head(b)
    ELSE bytes_le(Tail(a), Tail(b))

\* index.rs 156: iter.seek(block_hash)
seek_target(block_hash) == block_hash

\* DBIterator::seek: the first key of the store that is not below the target
seek(store, target) ==
    LET from == {k \in store : bytes_le(target, k)}
    IN IF from = {} THEN <<>>
       ELSE CHOOSE k \in from : \A other \in from : bytes_le(k, other)

\* index.rs 203-205, on a key that is not empty
is_block_index_key(key) == <<Head(key)>> = BlockPrefix

\* index.rs 144-165; the values of the rows are readable.  When the iterator
\* is past the last key, current() leaves key empty and data.first().unwrap()
\* panics.
get_block_entry_by_block_hash(store, block_hash) ==
    LET key == seek(store, seek_target(block_hash))
    IN IF key = <<>> THEN [result |-> "panic", block_hash |-> <<>>]
       ELSE IF is_block_index_key(key) THEN [result |-> "Ok", block_hash |-> Tail(key)]
       ELSE [result |-> "EntryNotFound", block_hash |-> <<>>]

LookupInit ==
    /\ NewOrdi
    /\ inscribe_updaters = 0
    /\ transfer_updaters = 0
    /\ ordi_index = NoIndex
    /\ \E store \in SUBSET StoreKeys, block_hash \in HashBytes :
          call = [f |-> "none", arg |-> [store |-> store, block_hash |-> block_hash],
                  result |-> [result |-> "none", block_hash |-> <<>>]]

GetBlockEntryByBlockHash ==
    /\ call.f = "none"
    /\ call' = [f |-> "get_block_entry_by_block_hash", arg |-> call.arg,
                result |-> get_block_entry_by_block_hash(call.arg.store,
                                                         call.arg.block_hash)]
    /\ UNCHANGED <<engine, ordi_index>>

LookupNext == GetBlockEntryByBlockHash

LookupSpec == LookupInit /\ [][LookupNext]_vars

\* ------------------------------------------- a coinbase with a witness
\* The engine validates nothing: Inscription::from_transaction parses the
\* witness of every input, the input of the coinbase too.  Here the script of
\* the coinbase's witness may hold envelopes.
CoinbaseEnvelopes == {<<0>>, <<1>>, <<2>>}

TransactionsWithCoinbaseWitness(position) ==
    IF position = 1
    THEN {[tx EXCEPT !.envelopes = envelopes] :
             tx \in Transactions(position), envelopes \in CoinbaseEnvelopes}
    ELSE Transactions(position)

\* block.rs 115-124: one iteration of the loop of index_transactions
IndexTransactionWithCoinbaseWitness ==
    /\ pc = "indexing"
    /\ Len(replayed) < Len(block)
    /\ LET position == replay_order(Len(block))[Len(replayed) + 1]
       IN \E tx \in TransactionsWithCoinbaseWitness(position) :
             \E r \in {index_inscriptions_in_transaction(tx)} :
                /\ block' = [block EXCEPT ![position] = tx]
                /\ node' = node @@ (tx.hash :> tx.outputs)
                /\ utxo' = IF position = 1 THEN utxo
                           ELSE (utxo \ Range(tx.inputs))
                                \cup {<<tx.hash, v - 1>> : v \in 1..Len(tx.outputs)}
                /\ status' = r.status
                /\ output_value' = r.output_value
                /\ iu' = r.iu
                /\ events' = r.events
                /\ last' = r.last
                /\ replayed' = Append(replayed, position)
    /\ UNCHANGED <<used, id_inscription, inscription_output, output_inscription,
                   pc, height>>
    /\ UNCHANGED <<handlers, chain, outside>>

CoinbaseWitnessNext == IndexHeight \/ IndexTransactionWithCoinbaseWitness \/ FlushUpdate

\* lib.rs 185-207 on blocks whose coinbase may carry envelopes
CoinbaseWitnessSpec == Init /\ [][CoinbaseWitnessNext]_vars

\* ------------------------------------------------- a block that fails
\* start() with a node whose get_raw_transaction may fail and tables whose
\* write may fail.  reference keeps the five tables as they are when
\* index_transactions is called.
MaxFailedTxs == 3

\* the tables, the events and the height of the call
TablesNow ==
    [status |-> status, output_value |-> output_value,
     id_inscription |-> id_inscription, inscription_output |-> inscription_output,
     output_inscription |-> output_inscription, events |-> events, height |-> height]

\* lib.rs 176-180 and block.rs 99-113: get_block_hash and get_block succeed
\* and index_transactions is called
IndexTransactionsCalled ==
    /\ pc = "idle"
    /\ IF ChainIndex(height) <= Len(chain)
       THEN /\ block' = chain[ChainIndex(height)]
            /\ UNCHANGED <<used, chain>>
       ELSE \E n \in 1..(MaxFailedTxs - used) :
               /\ block' = [position \in 1..n |-> NoTx]
               /\ used' = used + n
               /\ chain' = Append(chain, [position \in 1..n |-> NoTx])
    /\ iu' = NewInscriptionUpdater(status, height)
    /\ replayed' = <<>>
    /\ pc' = "indexing"
    /\ reference' = TablesNow
    /\ UNCHANGED <<node, utxo, status, output_value, id_inscription,
                   inscription_output, output_inscription, height, events, last>>
    /\ UNCHANGED <<handlers, disk, call, ordi_index, errors>>

FailedBlockNext ==
    \/ IndexTransactionsCalled
    \/ ReplayTransactionWithValues
    \/ GetRawTransactionFails
    \/ FlushUpdate
    \/ FlushUpdateFails
    \/ Wake

\* lib.rs 185-207
FailedBlockSpec == Init /\ [][FailedBlockNext]_vars

\* ============================================================== properties
\* the positions of the entries "/<id>:<digits>" of an inscription in a list
EntriesOf(list, id) ==
    {i \in 1..(Len(list) - 3) :
        /\ list[i] = Slash
        /\ list[i + 1] = IdText(id)
        /\ list[i + 2] = Colon
        /\ list[i + 3][1] = "d"}

\* the calls of update_inscription_state of the last transaction that gave a
\* new inscription a blessed, or a cursed, number
IsBlessedNew(p) == p.flotsam.origin.kind = "New" /\ ~p.flotsam.origin.cursed
IsCursedNew(p) == p.flotsam.origin.kind = "New" /\ p.flotsam.origin.cursed
InscribeEvents == {i \in 1..Len(events) : events[i].kind = "inscribe"}
TxReplayed == pc = "indexing" /\ pc' = "indexing" /\ replayed' # replayed

\* C1 - index coherence: once a block is flushed, every inscription id of
\* inscription_output maps to an output O whose list in output_inscription has
\* exactly one entry for the id, and no other list has an entry for it.
IndexCoherence ==
    pc = "idle" =>
        \A id \in DOMAIN inscription_output :
            LET O == inscription_output[id]
            IN /\ O \in DOMAIN output_inscription
               /\ Cardinality(EntriesOf(output_inscription[O], id)) = 1
               /\ \A other \in DOMAIN output_inscription \ {O} :
                     EntriesOf(output_inscription[other], id) = {}

\* a flushed block in which an inscription left the list of one output for the
\* list of another that already held an entry
IndexCoherenceWitness ==
    /\ pc = "idle"
    /\ \E i \in 1..Len(events) :
          /\ events[i].kind = "transfer"
          /\ events[i].inscription_id \in DOMAIN inscription_output
          /\ inscription_output[events[i].inscription_id]
                = OutputKey(events[i].txid, events[i].vout)
          /\ events[i].from_output \notin DOMAIN output_inscription
          /\ Cardinality(DOMAIN inscription_output) >= 2

\* the counter of blessed numbers: the updater's while a block is indexed,
\* the status row between blocks
NextNumber == IF pc = "indexing" THEN iu.next_number
              ELSE status_value(status, NEXT_ID_NUMBER)

NumberMonotonicityState ==
    /\ \A i \in InscribeEvents : \A j \in InscribeEvents :
          events[i].id = events[j].id => i = j
    /\ pc = "idle" =>
          /\ {n \in DOMAIN id_inscription : n >= 0}
                = 0..(status_value(status, NEXT_ID_NUMBER) - 1)
          /\ \A i \in InscribeEvents :
                /\ events[i].id \in DOMAIN id_inscription
                /\ id_inscription[events[i].id] = events[i].inscription_id

NumberMonotonicityStep ==
    /\ NextNumber' >= NextNumber
    /\ status_value(status', NEXT_ID_NUMBER) >= status_value(status, NEXT_ID_NUMBER)
    /\ TxReplayed =>
          LET blessed == SelectSeq(last'.placed, IsBlessedNew)
          IN /\ \A i \in 1..Len(blessed) : blessed[i].number = NextNumber + (i - 1)
             /\ NextNumber' = NextNumber + Len(blessed)
    /\ ~TxReplayed => NextNumber' = NextNumber

\* C2 - number monotonicity: next_id_number never decreases; every blessed
\* inscription takes its current value, which then grows by one; after a flush
\* the non-negative keys of id_inscription are 0..next_id_number-1 and no two
\* inscriptions share a number.
NumberMonotonicity == []NumberMonotonicityState /\ [][NumberMonotonicityStep]_vars

\* two blocks flushed, each of which numbered a blessed inscription
NumberMonotonicityWitness ==
    /\ pc = "idle"
    /\ status_value(status, NEXT_ID_NUMBER) >= 2
    /\ \E i \in InscribeEvents : \E j \in InscribeEvents :
          /\ events[i].id = 0
          /\ events[j].id = 1
          /\ events[i].height < events[j].height

\* the counter of cursed numbers, which a status table without the row starts
\* at -1
NextCursedNumber ==
    IF pc = "indexing" THEN iu.next_cursed_number
    ELSE IF NEXT_CURSED_ID_NUMBER \in DOMAIN status THEN status[NEXT_CURSED_ID_NUMBER]
    ELSE -1

CursedNumbers == {events[i].id : i \in {j \in InscribeEvents : events[j].id < 0}}

CursedNumberingState ==
    /\ NextCursedNumber <= -1
    /\ CursedNumbers = (NextCursedNumber + 1)..(-1)
    /\ Cardinality({j \in InscribeEvents : events[j].id < 0}) = Cardinality(CursedNumbers)
    /\ \A i \in 1..Len(last.placed) :
          /\ IsCursedNew(last.placed[i]) => last.placed[i].number < 0
          /\ IsBlessedNew(last.placed[i]) => last.placed[i].number >= 0

CursedNumberingStep ==
    /\ NextCursedNumber' <= NextCursedNumber
    /\ TxReplayed =>
          LET cursed == SelectSeq(last'.placed, IsCursedNew)
          IN /\ \A i \in 1..Len(cursed) : cursed[i].number = NextCursedNumber - (i - 1)
             /\ NextCursedNumber' = NextCursedNumber - Len(cursed)
    /\ ~TxReplayed => NextCursedNumber' = NextCursedNumber

\* C3 - cursed numbering: next_cursed_id_number is at most -1 and never
\* increases; every cursed inscription takes its current value, which then
\* drops by one; from an empty status table it starts at -1, so the cursed
\* numbers are -1, -2, -3, ... and none is a blessed number.
CursedNumbering == []CursedNumberingState /\ [][CursedNumberingStep]_vars

\* cursed numbers -1 and -2 given in two blocks, next to a blessed number
CursedNumberingWitness ==
    /\ pc = "idle"
    /\ \E i \in InscribeEvents : \E j \in InscribeEvents : \E k \in InscribeEvents :
          /\ events[i].id = -1
          /\ events[j].id = -2
          /\ events[i].height < events[j].height
          /\ events[k].id >= 0

\* ------------------------------------------------- the last transaction
PrefixSum(values, k) == SumSeq(SubSeq(values, 1, k))

\* the list of an output as the engine holds it: in the cache of the block
\* being indexed, else in the table
ListAt(output) ==
    IF pc = "indexing" /\ output \in DOMAIN iu.output_inscription_cache
    THEN iu.output_inscription_cache[output]
    ELSE DbGet(output_inscription, output, <<>>)

\* the list holds the entry "/<id>:<offset>"
HasEntry(list, id, offset) ==
    LET e == Entry(id, offset)
    IN \E i \in 1..Len(list) :
          /\ i + Len(e) - 1 <= Len(list)
          /\ SubSeq(list, i, i + Len(e) - 1) = e
          /\ (i + Len(e) <= Len(list) => list[i + Len(e)] = Slash)

IsUnbound(f) == f.origin.kind = "New" /\ f.origin.unbound

\* the flotsam f, at offset o of the last transaction with P_k <= o < P_k + v_k,
\* went to output k at offset o - P_k
RecordedBySatFlow(f) ==
    \A k \in 0..(Len(last.tx.outputs) - 1) :
        LET P == PrefixSum(last.tx.outputs, k)
        IN (P <= f.offset /\ f.offset < P + last.tx.outputs[k + 1]) =>
              /\ \E j \in 1..Len(last.placed) :
                    /\ last.placed[j].flotsam = f
                    /\ last.placed[j].output = OutputKey(last.tx.hash, k)
                    /\ last.placed[j].offset = f.offset - P
              /\ HasEntry(ListAt(OutputKey(last.tx.hash, k)), f.inscription_id,
                          f.offset - P)

PlacedAscending ==
    \A i \in 1..Len(last.placed) : \A j \in i..Len(last.placed) :
        last.placed[i].flotsam.offset <= last.placed[j].flotsam.offset

ZeroValueOutputsEmpty ==
    /\ \A j \in 1..Len(last.placed) :
          last.placed[j].new_txid = last.tx.hash =>
              last.tx.outputs[last.placed[j].vout + 1] > 0
    /\ \A k \in 0..(Len(last.tx.outputs) - 1) :
          last.tx.outputs[k + 1] = 0 => ListAt(OutputKey(last.tx.hash, k)) = <<>>

\* C4 - sat-flow placement, for the inscriptions that are not flagged unbound:
\* in a transaction with output values v_0.. and prefix sums P_k, a floating
\* inscription at absolute offset o with P_k <= o < P_k + v_k is recorded under
\* the key of output k with offset o - P_k; inscriptions are placed in
\* ascending offset order and a zero-value output receives none.
SatFlowPlacement ==
    /\ \A i \in 1..Len(last.floating) :
          ~IsUnbound(last.floating[i]) => RecordedBySatFlow(last.floating[i])
    /\ PlacedAscending
    /\ ZeroValueOutputsEmpty

\* C4 as stated, for every floating inscription
SatFlowPlacementOfEvery ==
    /\ \A i \in 1..Len(last.floating) : RecordedBySatFlow(last.floating[i])
    /\ PlacedAscending
    /\ ZeroValueOutputsEmpty

\* a moved inscription and a new one land in the second output, behind a first
\* output that takes none
SatFlowPlacementWitness ==
    /\ last.tx.outputs = <<1, 1>>
    /\ \E i \in 1..Len(last.placed) : \E j \in 1..Len(last.placed) :
          /\ last.placed[i].flotsam.origin.kind = "Old"
          /\ last.placed[i].output = OutputKey(last.tx.hash, 1)
          /\ last.placed[i].flotsam.offset = 1
          /\ last.placed[i].offset = 0
          /\ last.placed[j].flotsam.origin.kind = "New"
          /\ ~last.placed[j].flotsam.origin.unbound
          /\ last.placed[j].output = OutputKey(last.tx.hash, 1)

\* an inscription of the outputs spent by inputs 0..tx_in_index sits at offset
CarriedAt(tx_in_index, offset) ==
    \E i \in 1..Len(last.floating) :
        /\ last.floating[i].origin.kind = "Old"
        /\ last.floating[i].offset = offset
        /\ \E j \in 1..(tx_in_index + 1) :
              last.floating[i].origin.old_output
                 = OutputKey(last.tx.inputs[j][1], last.tx.inputs[j][2])

CurseByRule(rec) ==
    IF rec.tx_in_index # 0 THEN "NotInFirstInput"
    ELSE IF rec.tx_in_offset # 0 THEN "NotAtOffsetZero"
    ELSE IF CarriedAt(rec.tx_in_index, rec.offset) THEN "Reinscription"
    ELSE "None"

\* C5 - curse rules: the curse of a new envelope is NotInFirstInput if
\* tx_in_index # 0, else NotAtOffsetZero if tx_in_offset # 0, else Reinscription
\* if an inscription carried by the spent inputs already sits at its offset,
\* else none; unless the curse is Reinscription, cursed holds exactly when
\* there is a curse; a blessed inscription receives the current next_id_number.
CurseRules ==
    /\ last.found # <<>> => last.found = 
          [i \in 1..Len(last.found) |->
              [last.found[i] EXCEPT
                 !.tx_in_index = from_transaction(last.tx)[i].tx_in_index,
                 !.tx_in_offset = from_transaction(last.tx)[i].tx_in_offset,
                 !.offset = SumSeq([j \in 1..last.found[i].tx_in_index |->
                                       ChainValue(last.tx.inputs[j])])]]
    /\ Len(last.found) = Len(from_transaction(last.tx))
    /\ \A i \in 1..Len(last.found) :
          LET rec == last.found[i]
          IN /\ rec.curse = CurseByRule(rec)
             /\ rec.curse # "Reinscription" => rec.cursed = (rec.curse # "None")
             /\ \E j \in 1..Len(last.floating) :
                   /\ last.floating[j].inscription_id = rec.inscription_id
                   /\ last.floating[j].origin.kind = "New"
                   /\ last.floating[j].origin.cursed = rec.cursed
    /\ \A i \in 1..Len(last.placed) :
          IsBlessedNew(last.placed[i]) =>
              \E e \in InscribeEvents :
                  /\ events[e].inscription_id = last.placed[i].flotsam.inscription_id
                  /\ events[e].id = last.placed[i].number
                  /\ events[e].id
                        = Cardinality({j \in InscribeEvents : j < e /\ events[j].id >= 0})

\* one input with an envelope at offset 0 on an uninscribed sat, blessed and
\* numbered, and a second envelope cursed for its place
CurseRulesWitness ==
    /\ Len(last.found) >= 2
    /\ last.found[1].curse = "None"
    /\ last.found[2].curse = "NotAtOffsetZero"
    /\ \E i \in 1..Len(last.placed) :
          /\ last.placed[i].flotsam.inscription_id = last.found[1].inscription_id
          /\ last.placed[i].number >= 1

NumberOf(id) ==
    events[CHOOSE e \in InscribeEvents : events[e].inscription_id = id].id

\* C6 - reinscription rule: when the curse is Reinscription, cursed =
\* ~(first /\ initial_cursed), first meaning that exactly one inscription was
\* at the offset and initial_cursed that the status row of the first one
\* recorded there is non-zero; so the first reinscription over a cursed
\* inscription is blessed and one over a blessed inscription is cursed.
ReinscriptionRule ==
    \A i \in 1..Len(last.found) :
        LET rec == last.found[i]
            At(f) == /\ f.origin.kind = "Old"
                     /\ f.offset = rec.offset
                     /\ f.origin.old_output
                           = OutputKey(last.tx.inputs[1][1], last.tx.inputs[1][2])
            olds == SelectSeq(last.floating, At)
        IN rec.curse = "Reinscription" =>
              /\ olds # <<>>
              /\ LET first == Len(olds) = 1
                     initial == olds[1].inscription_id
                     initial_cursed == status_value(last.status, IdText(initial)) # 0
                 IN /\ rec.cursed = ~(first /\ initial_cursed)
                    /\ initial_cursed <=> NumberOf(initial) < 0
                    /\ (first /\ NumberOf(initial) < 0) => ~rec.cursed
                    /\ NumberOf(initial) >= 0 => rec.cursed

\* the first reinscription over a cursed inscription
ReinscriptionRuleWitness ==
    \E i \in 1..Len(last.found) :
        /\ last.found[i].curse = "Reinscription"
        /\ ~last.found[i].cursed

\* --------------------------------------------------------- the block loop
CoinbaseLastOrder(n) == [k \in 1..n |-> IF k < n THEN k + 1 ELSE 1]

CoinbaseLastState ==
    /\ Len(replayed) <= Len(block)
    /\ replayed = SubSeq(CoinbaseLastOrder(Len(block)), 1, Len(replayed))
    /\ \A position \in 1..Len(block) :
          (\E k \in 1..Len(replayed) : replayed[k] = position) <=> block[position] # NoTx
    /\ \A k \in 1..Len(replayed) :
          (replayed[k] = 1) <=> is_null(block[replayed[k]].inputs[1])
    /\ replayed # <<>> => last.tx = block[replayed[Len(replayed)]]
    /\ (pc = "idle" /\ block # <<>>) =>
          /\ replayed = CoinbaseLastOrder(Len(block))
          /\ status_value(status, INDEXED_HEIGHT) = height - 1
    /\ pc = "indexing" => status_value(status, INDEXED_HEIGHT) < height

FlushAfterAll ==
    (\/ id_inscription' # id_inscription
     \/ inscription_output' # inscription_output
     \/ output_inscription' # output_inscription
     \/ status_value(status', INDEXED_HEIGHT) # status_value(status, INDEXED_HEIGHT))
    => /\ replayed = CoinbaseLastOrder(Len(block))
       /\ replayed' = replayed

\* C7 - coinbase-last ordering: index_transactions replays every transaction of
\* a block txs[0..n-1] exactly once, in the order txs[1], ..., txs[n-1], txs[0],
\* and flush_update runs only after all of them have been replayed.
CoinbaseLast == []CoinbaseLastState /\ [][FlushAfterAll]_vars

\* a block of three transactions flushed after the replay 2, 3, 1
CoinbaseLastWitness ==
    /\ pc = "idle"
    /\ Len(block) = 3
    /\ replayed = <<2, 3, 1>>
    /\ status_value(status, INDEXED_HEIGHT) = height - 1
    /\ events # <<>>

\* the last transaction is a transaction of the block being indexed
InBlock == pc = "indexing" /\ replayed # <<>>

\* the fees of the transactions replayed before the last one
EarlierFees == SumSeq([k \in 1..(Len(replayed) - 1) |-> Fee(block[replayed[k]])])

QueuedPastOutputs ==
    LET out == SumSeq(last.tx.outputs)
        reward == subsidy(height) + EarlierFees
        past == {i \in 1..Len(last.floating) : last.floating[i].offset >= out}
    IN /\ Len(iu.flotsam) = Len(last.before.flotsam) + Cardinality(past)
       /\ SubSeq(iu.flotsam, 1, Len(last.before.flotsam)) = last.before.flotsam
       /\ \A i \in past :
             LET f == last.floating[i]
             IN /\ \A j \in 1..Len(last.placed) : last.placed[j].flotsam # f
                /\ \E q \in (Len(last.before.flotsam) + 1)..Len(iu.flotsam) :
                      iu.flotsam[q] = [f EXCEPT !.offset = reward + (f.offset - out)]

CoinbaseTakesQueue ==
    LET out == SumSeq(last.tx.outputs)
    IN /\ iu.flotsam = <<>>
       /\ \A q \in 1..Len(last.before.flotsam) :
             LET f == last.before.flotsam[q]
             IN \E j \in 1..Len(last.placed) :
                   /\ last.placed[j].flotsam = f
                   /\ IF f.offset >= out
                      THEN /\ last.placed[j].new_txid = NullTxid
                           /\ last.placed[j].vout = U32_MAX
                      ELSE \E k \in 0..(Len(last.tx.outputs) - 1) :
                              /\ PrefixSum(last.tx.outputs, k) <= f.offset
                              /\ f.offset < PrefixSum(last.tx.outputs, k + 1)
                              /\ last.placed[j].new_txid = last.tx.hash
                              /\ last.placed[j].vout = k
                              /\ last.placed[j].offset
                                    = f.offset - PrefixSum(last.tx.outputs, k)

\* C8 - fee hand-off: an inscription at or past the sum of the outputs of a
\* non-coinbase transaction is not placed there but queued at reward +
\* (offset - output_sum), reward being the subsidy plus the fees of the earlier
\* non-coinbase transactions of the block; the coinbase pass places every
\* queued inscription by the sat-flow rule over the coinbase outputs, or
\* records it as lost, and leaves the queue empty.
FeeHandOff ==
    InBlock => IF last.is_coinbase THEN CoinbaseTakesQueue ELSE QueuedPastOutputs

\* a coinbase that took over an inscription queued behind the fee of an
\* earlier transaction
FeeHandOffWitness ==
    /\ InBlock
    /\ last.is_coinbase
    /\ \E q \in 1..Len(last.before.flotsam) :
          /\ last.before.flotsam[q].offset > subsidy(height)
          /\ \E j \in 1..Len(last.placed) :
                /\ last.placed[j].flotsam = last.before.flotsam[q]
                /\ last.placed[j].new_txid = NullTxid

LostSatsStep ==
    /\ status_value(status', LOST_SATS) >= status_value(status, LOST_SATS)
    /\ (pc = "indexing" /\ pc' = "idle") =>
          status_value(status', LOST_SATS)
             = status_value(status, LOST_SATS)
                  + (subsidy(height) + Fees(block)) - SumSeq(block[1].outputs)

\* C9 - lost sats: status[LOST_SATS] never decreases, and after each block it
\* is its previous value plus the subsidy and the fees of the block's
\* non-coinbase transactions minus the sum of the coinbase outputs.
LostSats == [][LostSatsStep]_vars

\* a second block flushed on top of sats lost in an earlier one, losing more
LostSatsWitness ==
    /\ pc = "idle"
    /\ height >= FIRST_INSCRIPTION_HEIGHT + 2
    /\ last.before.lost_sats >= 1
    /\ status_value(status, LOST_SATS) > last.before.lost_sats

UnboundPlacements == {i \in 1..Len(last.placed) : IsUnbound(last.placed[i].flotsam)}

\* the unbound inscriptions go under Key(N), N the counter before the placement
UnboundRule(Key(_)) ==
    /\ \A i \in 1..Len(last.found) :
          LET rec == last.found[i]
              spent == SumSeq([j \in 1..(rec.tx_in_index + 1) |->
                                  ChainValue(last.tx.inputs[j])])
          IN rec.unbound <=> (spent = 0 \/ rec.tx_in_offset # 0)
    /\ \A i \in 1..Len(last.placed) :
          LET p == last.placed[i]
              N == last.before.unbound_inscriptions
                      + Cardinality({j \in UnboundPlacements : j < i})
          IN IF IsUnbound(p.flotsam)
             THEN /\ p.output = Key(N)
                  /\ ListAt(Key(N)) = Entry(p.flotsam.inscription_id, p.offset)
             ELSE p.output = OutputKey(p.new_txid, p.vout)
    /\ InBlock => iu.unbound_inscriptions
                     = last.before.unbound_inscriptions + Cardinality(UnboundPlacements)
    /\ pc = "idle" =>
          /\ \A a \in DOMAIN inscription_output : \A b \in DOMAIN inscription_output :
                (inscription_output[a] = inscription_output[b]
                    /\ inscription_output[a][1] = NullTxid
                    /\ inscription_output[a] # OutputKey(NullTxid, U32_MAX)) => a = b
          /\ \A i \in 1..Len(events) :
                events[i].kind = "transfer" =>
                    inscription_output[events[i].inscription_id][1] # NullTxid
                    \/ inscription_output[events[i].inscription_id]
                          = OutputKey(NullTxid, U32_MAX)

UnboundKey(n) == <<NullTxid, 0, n>>
UnboundKeyAsStated(n) == <<NullTxid, n>>

\* C10 - unbound destination: a new inscription flagged unbound (input_value 0
\* after its input is added, or tx_in_offset # 0) is stored under the key
\* "<64 zeros>:0:<N>", N the value of unbound_inscriptions before the
\* placement; the counter then grows by one, so unbound inscriptions get
\* distinct keys, and a moved inscription is never unbound.
UnboundDestination == UnboundRule(UnboundKey)

\* C10 as stated, with the key "<64 zeros>:<N>"
UnboundDestinationAsStated == UnboundRule(UnboundKeyAsStated)

\* the second unbound inscription of a run, stored under N = 1
UnboundDestinationWitness ==
    /\ InBlock
    /\ \E i \in UnboundPlacements :
          /\ last.placed[i].unbound_inscriptions = 1
          /\ iu.unbound_inscriptions = 2

\* ------------------------------------------------------- C11 status commits last
IndexedHeight(st) == DbGet(st, INDEXED_HEIGHT, 0)

\* the heights whose block start() has seen committed to the end
FullyCommitted == FIRST_INSCRIPTION_HEIGHT..(height - 1)

StatusCommitsLastState ==
    IF FullyCommitted = {} THEN INDEXED_HEIGHT \notin DOMAIN status
    ELSE /\ INDEXED_HEIGHT \in DOMAIN status
         /\ status[INDEXED_HEIGHT] \in FullyCommitted
         /\ \A h \in FullyCommitted : h <= status[INDEXED_HEIGHT]

StatusCommitsLastStep ==
    /\ id_inscription' # id_inscription
          => pc = "indexing" /\ pc' = "inscription_output"
    /\ inscription_output' # inscription_output
          => pc = "inscription_output" /\ pc' = "output_inscription"
    /\ output_inscription' # output_inscription
          => pc = "output_inscription" /\ pc' = "status"
    /\ IndexedHeight(status') # IndexedHeight(status)
          => /\ pc = "status" /\ pc' = "idle"
             /\ IndexedHeight(status') = height
             /\ height' = height + 1
    /\ pc = "status" /\ pc' = "idle" => IndexedHeight(status') = height

\* C11: flush_update writes id_inscription, then inscription_output, then
\* output_inscription, then status; the write that sets INDEXED_HEIGHT to the
\* height of the block is the last write of that block, after which start() is at
\* the next height; in every state of a run, between any two writes and after an
\* error, status[INDEXED_HEIGHT] is the largest height whose block was committed
\* to the end, and is absent while there is none.
StatusCommitsLast == []StatusCommitsLastState /\ [][StatusCommitsLastStep]_vars

\* three tables of the first block are written, the status batch is not
StatusCommitsLastWitness ==
    /\ pc = "status"
    /\ id_inscription # <<>>
    /\ inscription_output # <<>>
    /\ output_inscription # <<>>
    /\ INDEXED_HEIGHT \notin DOMAIN status

\* ------------------------------------------------------- C14 tip-follow retry
TipFollowRetryState ==
    /\ pc \in {"idle", "indexing", "sleeping"} \cup Range(flush_order)
    /\ pc = "sleeping" => ENABLED Wake

TipFollowRetryStep ==
    /\ height' # height
          => height' = height + 1 /\ pc = "status" /\ pc' = "idle"
    /\ pc = "status" /\ pc' = "idle" => height' = height + 1
    /\ pc' = "sleeping" => height' = height
    /\ pc = "sleeping" => pc' = "idle"
    /\ errors' # errors => pc' = "sleeping"

\* C14: when index_height_net returns Err, next_height keeps its value, start()
\* sleeps and then attempts the same height again; next_height grows by exactly
\* one in the step that completes the index of that height and in no other
\* step; the loop has no state in which it has exited, and a sleeping loop can
\* always go on.
TipFollowRetry == []TipFollowRetryState /\ [][TipFollowRetryStep]_vars

\* after an error inside the first block, the same height is being indexed
\* again: its transactions are known and none is replayed yet
TipFollowRetryWitness ==
    /\ errors > 0
    /\ pc = "indexing"
    /\ height = FIRST_INSCRIPTION_HEIGHT
    /\ replayed = <<>>
    /\ \E position \in DOMAIN block : block[position] # NoTx

\* ------------------------------------------------ C12 per-block crash consistency
\* the second run has committed the blocks the first run has committed
CaughtUp == reference # NoRun /\ pc = "idle" /\ height = reference.height

SameTables ==
    /\ status = reference.status
    /\ output_value = reference.output_value
    /\ id_inscription = reference.id_inscription
    /\ inscription_output = reference.inscription_output
    /\ output_inscription = reference.output_inscription

\* the process was killed inside a block, before the status batch of the block
KilledInsideBlock == disk # NoDisk /\ disk.pc # "idle"

\* C12: when the process is killed while a block is being indexed, before the
\* status batch of the block is written, and is started again, then once the
\* block is replayed the five tables hold what they hold after the run that was
\* not killed.
CrashConsistency == KilledInsideBlock /\ CaughtUp => SameTables

\* ------------------------------------------------------- C13 resume on restart
\* C13: a process started on the data directory of an earlier one indexes no
\* height at or below the status[indexed_height] it found there, and goes on
\* from that height.
ResumeOnRestart ==
    reference # NoRun /\ INDEXED_HEIGHT \in DOMAIN disk.status
        => /\ height >= disk.status[INDEXED_HEIGHT]
           /\ pc # "idle" => height > disk.status[INDEXED_HEIGHT]

EntriesOfPlacement(p) ==
    IF p.flotsam.origin.kind = "Old"
    THEN [k \in 1..transfer_updaters |->
            [kind |-> "transfer", updater |-> k,
             inscription_id |-> p.flotsam.inscription_id]]
    ELSE [k \in 1..inscribe_updaters |->
            [kind |-> "inscribe", updater |-> k,
             inscription_id |-> p.flotsam.inscription_id, id |-> p.number]]

RECURSIVE EntriesOfPlacements(_)
EntriesOfPlacements(placed) ==
    IF placed = <<>> THEN <<>>
    ELSE EntriesOfPlacement(Head(placed)) \o EntriesOfPlacements(Tail(placed))

\* what identifies an entry: its kind, the handler called, the inscription and,
\* for an InscribeEntry, its id
Delivered(e) ==
    IF e.kind = "transfer"
    THEN [kind |-> e.kind, updater |-> e.updater, inscription_id |-> e.inscription_id]
    ELSE [kind |-> e.kind, updater |-> e.updater, inscription_id |-> e.inscription_id,
          id |-> e.id]

EventEmissionStep ==
    TxReplayed =>
        /\ Len(events') >= Len(events)
        /\ SubSeq(events', 1, Len(events)) = events
        /\ [i \in 1..(Len(events') - Len(events)) |->
               Delivered(events'[Len(events) + i])]
             = EntriesOfPlacements(last'.placed)

\* C16: the entries handed to the handlers while a transaction is replayed are,
\* placement after placement in the order of the placements, one InscribeEntry
\* per registered inscribe handler for a new inscription and one TransferEntry
\* per registered transfer handler for a moved one, handlers in the order of
\* registration, all entries of a placement before those of the next; the id of
\* an InscribeEntry is the number given to the inscription; entries handed
\* earlier are never changed.
EventEmission == [][EventEmissionStep]_vars

\* a transaction moved one inscription and made another, with two handlers
\* registered in each registry
EventEmissionWitness ==
    /\ pc = "indexing"
    /\ inscribe_updaters = 2
    /\ transfer_updaters = 2
    /\ \E i, j \in DOMAIN last.placed :
          /\ last.placed[i].flotsam.origin.kind = "Old"
          /\ last.placed[j].flotsam.origin.kind = "New"
    /\ Len(events) >= 2 * Len(last.placed)

\* ------------------------------------------------------- C17 subsidy schedule
\* the schedule of the claim: (50 * 10^8) >> (h / 210000) below epoch 33, else 0
Schedule(h) ==
    IF h \div SUBSIDY_HALVING_INTERVAL < FIRST_POST_SUBSIDY
    THEN Shr(FiftyCoins, h \div SUBSIDY_HALVING_INTERVAL)
    ELSE Sats(0)

ScheduleExamples ==
    /\ call.arg \in {0, 209999} => call.result.value = <<5, 0>>
    /\ call.arg = 210000 => call.result.value = <<2, 500000000>>
    /\ call.arg = 630000 => call.result.value = <<0, 625000000>>

\* Height(h).subsidy() follows the schedule
SubsidyFollowsSchedule ==
    call.f = "Height::subsidy"
        => /\ call.result = Returned(Schedule(call.arg))
           /\ ScheduleExamples
           /\ call.arg >= 2 * SUBSIDY_HALVING_INTERVAL
                 => call.result.value = Sats(subsidy(call.arg))

\* C17: for every height h, Height(h).subsidy() is (50 * 10^8) >> (h / 210000)
\* below epoch 33 and 0 from there on (5000000000 at 0 and 209999, 2500000000
\* at 210000, 625000000 at 630000), and get_base_reward(h) returns what
\* Height(h).subsidy() returns.
SubsidySchedule ==
    /\ SubsidyFollowsSchedule
    /\ call.f = "get_base_reward" => call.result \in Height_subsidy(call.arg)

\* ------------------------------------------------------- C18 index-store varint
\* The value the bytes 1..k of an encoding stand for, in digits of any length:
\* every byte shifts its low seven bits in, every byte with the bit 0x80 adds 1.
RECURSIVE VarintValue(_, _)
VarintValue(bytes, k) ==
    IF k = 0 THEN <<>>
    ELSE LET shifted ==
                 Trim([i \in 1..7 |-> ((bytes[k] % 128) \div Pow2(i - 1)) % 2]
                      \o VarintValue(bytes, k - 1))
         IN IF bytes[k] >= 128 THEN PlusOne(shifted) ELSE shifted

\* the first byte without the bit 0x80, or 0 when there is none
LastByte(bytes) ==
    LET ends == {k \in DOMAIN bytes : bytes[k] < 128}
    IN IF ends = {} THEN 0 ELSE CHOOSE k \in ends : \A j \in ends : k <= j

\* the first byte with which the value no longer fits 64 bits, or 0
FirstTooLarge(bytes) ==
    LET large == {k \in DOMAIN bytes : Len(VarintValue(bytes, k)) > U64_BITS}
    IN IF large = {} THEN 0 ELSE CHOOSE k \in large : \A j \in large : k <= j

VarintExpected(bytes) ==
    LET stop == LastByte(bytes)
        large == FirstTooLarge(bytes)
    IN IF large # 0 /\ (stop = 0 \/ large <= stop)
       THEN [kind |-> "size too large", n |-> <<>>]
       ELSE IF stop = 0 THEN [kind |-> "io error", n |-> <<>>]
       ELSE [kind |-> "ok", n |-> VarintValue(bytes, stop)]

\* C18: read_varint returns the value of the fold n = (n << 7) | (b & 0x7F),
\* plus 1 after every byte with the bit 0x80, up to the first byte without it;
\* it is the fatal error "size too large" when the fold no longer fits 64 bits
\* at or before that byte, and an IO error, not a value, when the bytes end
\* before such a byte; [0x80, 0x00] gives 128 and [0xff, 0xff, 0x7f] 2113663.
IndexStoreVarint ==
    call.f = "read_varint"
        => /\ call.result = VarintExpected(call.arg)
           /\ call.arg = <<128, 0>> => call.result = [kind |-> "ok", n |-> ToU64(128)]
           /\ call.arg = <<255, 255, 127>>
                 => call.result = [kind |-> "ok", n |-> ToU64(2113663)]

\* the largest u64 is decoded; one more continuation byte is the fatal error
IndexStoreVarintWitness ==
    /\ call.f = "read_varint"
    /\ call.arg = <<128, 254, 254, 254, 254, 254, 254, 254, 254, 127>>
    /\ call.result = [kind |-> "ok", n |-> U64Max]
    /\ read_varint(<<128, 254, 254, 254, 254, 254, 254, 254, 254, 255, 0>>).kind
          = "size too large"
    /\ read_varint(<<255, 255>>).kind = "io error"

\* ------------------------------------------------- C19 height index construction
\* C19: after Index::new has returned an Index, every entry comes from a row
\* whose key starts with 'b' and whose status has bit 4 or bit 8 set, every
\* entry is stored under its own height, and max_height is the largest height
\* of the entries; Index::new returns InvalidHeight exactly when an entry is
\* stored under another height than its own.
HeightIndexConstruction ==
    call.f = "Index::new"
        => /\ call.result = "InvalidHeight"
                 <=> \E h \in DOMAIN parse_rows(call.arg, 1, NoIndex).index.entries :
                        parse_rows(call.arg, 1, NoIndex).index.entries[h].height # h
           /\ call.result = "Ok"
                 => /\ \A h \in DOMAIN ordi_index.entries :
                          /\ ordi_index.entries[h].height = h
                          /\ \E i \in DOMAIN call.arg :
                                /\ call.arg[i].key = "b"
                                /\ (call.arg[i].status \div 4) % 2 = 1
                                      \/ (call.arg[i].status \div 8) % 2 = 1
                                /\ call.arg[i].height = h
                                /\ call.arg[i].status = ordi_index.entries[h].status
                                /\ call.arg[i].blk_index = ordi_index.entries[h].blk_index
                    /\ ordi_index.entries # <<>>
                          => /\ ordi_index.max_height \in DOMAIN ordi_index.entries
                             /\ \A h \in DOMAIN ordi_index.entries :
                                   h <= ordi_index.max_height

\* a row at the largest height is dropped for its status, another row is kept
HeightIndexConstructionWitness ==
    /\ call.f = "Index::new"
    /\ call.result = "Ok"
    /\ ordi_index.entries # <<>>
    /\ \E i \in DOMAIN call.arg :
          /\ call.arg[i].key = "b"
          /\ call.arg[i].status = 1
          /\ call.arg[i].height > ordi_index.max_height

\* ------------------------------------------------- C20 catch_block file lifecycle
CatchBlockReturned ==
    /\ call'.f = "catch_block"
    /\ call'.result \in {"Ok", "BlkError"}
    /\ <<call, ordi_index>>' # <<call, ordi_index>>

CatchBlockLifecycleStep ==
    CatchBlockReturned =>
        LET h == call'.arg
            blk_index == ordi_index.entries[h].blk_index
        IN /\ ordi_index'.blks[blk_index]
                 <=> ordi_index.max_height_in_blk[blk_index] # h
           /\ \A other \in DOMAIN ordi_index.blks \ {blk_index} :
                 ordi_index'.blks[other] = ordi_index.blks[other]
           /\ ordi_index'.entries = ordi_index.entries
           /\ ordi_index'.max_height_in_blk = ordi_index.max_height_in_blk

\* C20: a catch_block(height) that returns, with a block or with the error of
\* the read, leaves the file of the entry closed when height is
\* max_height_in_blk of that file and open for every other height, whether the
\* file was open before the call or not; no other file is opened or closed.
CatchBlockLifecycle == [][CatchBlockLifecycleStep]_vars

\* the read of the last block of a file failed and the file is closed, after a
\* call for a lower height of the same file
CatchBlockLifecycleWitness ==
    /\ call.f = "catch_block"
    /\ call.result = "BlkError"
    /\ call.arg \in DOMAIN ordi_index.entries
    /\ LET blk_index == ordi_index.entries[call.arg].blk_index
       IN /\ ordi_index.max_height_in_blk[blk_index] = call.arg
          /\ ~ordi_index.blks[blk_index]
          /\ \E h \in DOMAIN ordi_index.entries :
                h < call.arg /\ ordi_index.entries[h].blk_index = blk_index

\* ------------------------------------------------- C21 witness script selection
\* what the parser returns for a script, whatever witness it came in
ScriptResult(script) == collect(parse_inscriptions(instructions(script), 1))
LastIsAnnex(witness) ==
    LET element == witness[Len(witness)]
    IN Len(element) > 0 /\ element[1] = 80

\* C21: parse returns an error, so that the input is skipped, for an empty
\* witness, for a witness of one element and for a witness of two elements
\* whose last element starts with 0x50; for every other witness it returns what
\* the parser finds in the last element when that element starts with 0x50, and
\* in the element before the last when it does not.
WitnessScriptSelection ==
    call.f = "parse" =>
        LET witness == call.arg.inputs[call.result.index + 1].witness
            len == Len(witness)
            parsed == call.result.parsed
        IN IF len = 0 THEN ~parsed.ok /\ parsed.error = "EmptyWitness"
           ELSE IF len = 1 \/ (len = 2 /\ LastIsAnnex(witness))
           THEN ~parsed.ok /\ parsed.error = "KeyPathSpend"
           ELSE IF LastIsAnnex(witness) THEN parsed = ScriptResult(witness[len])
           ELSE parsed = ScriptResult(witness[len - 1])

\* a witness of three elements with an annex: the last element and the one
\* before it hold different inscriptions, those of the last are returned
WitnessScriptSelectionWitness ==
    /\ call.f = "parse"
    /\ LET witness == call.arg.inputs[call.result.index + 1].witness
       IN /\ Len(witness) = 3
          /\ LastIsAnnex(witness)
          /\ ScriptResult(witness[2]).ok
          /\ call.result.parsed.ok
          /\ Len(call.result.parsed.value) = 1
          /\ ScriptResult(witness[2]) # call.result.parsed

\* ------------------------------------------------- C22 per-input error recovery
\* the inputs, counted from 0, whose witness the parser accepts, and the
\* inscriptions the parser returns for one of them
ParsedInputs(inputs) ==
    {i \in 0..(Len(inputs) - 1) :
        inputs[i + 1].has_witness /\ InscriptionParser_parse(inputs[i + 1].witness).ok}
InscriptionsOfInput(inputs, i) == InscriptionParser_parse(inputs[i + 1].witness).value

\* C22: from_transaction returns a list in which every input the parser
\* accepts has each of its inscriptions once, with its tx_in_index and with
\* tx_in_offset 0, 1, 2, ... in the parser's order, in which the inputs follow
\* in input order, and in which an input without witness or with a witness
\* the parser fails on has nothing, whatever inputs come before or after it.
PerInputErrorRecovery ==
    call.f = "from_transaction" =>
        LET inputs == call.arg.inputs
            result == call.result
        IN /\ \A k \in DOMAIN result :
                 /\ result[k].tx_in_index \in ParsedInputs(inputs)
                 /\ result[k].tx_in_offset + 1
                        \in DOMAIN InscriptionsOfInput(inputs, result[k].tx_in_index)
                 /\ result[k].inscription =
                        InscriptionsOfInput(inputs, result[k].tx_in_index)
                            [result[k].tx_in_offset + 1]
           /\ \A i \in ParsedInputs(inputs) :
                 \A o \in DOMAIN InscriptionsOfInput(inputs, i) :
                    Cardinality({k \in DOMAIN result :
                                    /\ result[k].tx_in_index = i
                                    /\ result[k].tx_in_offset = o - 1}) = 1
           /\ \A k \in DOMAIN result : \A m \in DOMAIN result :
                 k < m => \/ result[k].tx_in_index < result[m].tx_in_index
                          \/ /\ result[k].tx_in_index = result[m].tx_in_index
                             /\ result[k].tx_in_offset < result[m].tx_in_offset

\* the second of three inputs has an envelope with an unknown even tag; the two
\* inscriptions of the first input and the one of the third are returned
PerInputErrorRecoveryWitness ==
    /\ call.f = "from_transaction"
    /\ Len(call.arg.inputs) = 3
    /\ call.arg.inputs[2].has_witness
    /\ InscriptionParser_parse(call.arg.inputs[2].witness).error = "UnrecognizedEvenField"
    /\ Len(call.result) = 3
    /\ call.result[2].tx_in_index = 0
    /\ call.result[2].tx_in_offset = 1
    /\ call.result[3].tx_in_index = 2
    /\ call.result[3].tx_in_offset = 0

\* ------------------------------------------------- C24 envelope field rules
\* the fields of an envelope as written whose tag is that of an earlier field
\* or whose value is no push
RepeatedTags(shape) ==
    {k \in DOMAIN shape.fields : \E j \in 1..(k - 1) : shape.fields[j].tag = shape.fields[k].tag}
ValuesMissing(shape) == {k \in DOMAIN shape.fields : ~shape.fields[k].push}
EvenTags(shape) ==
    {k \in DOMAIN shape.fields :
        shape.fields[k].tag # <<1>> /\ shape.fields[k].tag[1] % 2 = 0}

\* the inscription of a well-formed envelope as written
InscriptionOf(shape) ==
    [body |-> IF shape.has_body
              THEN [some |-> TRUE, bytes |-> Concat(shape.body)]
              ELSE [some |-> FALSE, bytes |-> <<>>],
     content_type |->
         IF \E k \in DOMAIN shape.fields : shape.fields[k].tag = <<1>>
         THEN [some |-> TRUE,
               bytes |-> shape.fields[CHOOSE k \in DOMAIN shape.fields :
                                         shape.fields[k].tag = <<1>>].value]
         ELSE [some |-> FALSE, bytes |-> <<>>]]

\* C24: parse_one_inscription, on an envelope whose fields are pairs of a tag
\* and a pushed value, returns InvalidInscription when a tag is repeated;
\* otherwise, when the envelope is closed by OP_ENDIF, UnrecognizedEvenField
\* when a tag other than [0x01] has an even first byte, and else an Inscription
\* whose body is the concatenation, in order, of the pushes between the empty
\* tag and OP_ENDIF (no body without the empty tag) and whose content type is
\* the value of tag [0x01]; other tags with an odd first byte change nothing.
EnvelopeFieldRules ==
    (call.f = "parse_one_inscription" /\ call.arg.envelope # NoEnvelope) =>
        LET shape == call.arg.envelope
            result == call.result
        IN IF RepeatedTags(shape) # {} \/ ValuesMissing(shape) # {}
           THEN ~result.ok /\ result.error = "InvalidInscription"
           ELSE IF shape.end = "eof" THEN ~result.ok /\ result.error = "NoInscription"
           ELSE IF shape.end = "op" THEN ~result.ok /\ result.error = "InvalidInscription"
           ELSE IF EvenTags(shape) # {}
           THEN ~result.ok /\ result.error = "UnrecognizedEvenField"
           ELSE result.ok /\ result.value = InscriptionOf(shape)

\* an unknown odd tag, the content type, and a body of two pushes
EnvelopeFieldRulesWitness ==
    /\ call.f = "parse_one_inscription"
    /\ call.arg.envelope # NoEnvelope
    /\ Len(call.arg.envelope.fields) = 2
    /\ call.arg.envelope.fields[1].tag = <<3>>
    /\ call.arg.envelope.body = <<(<<7>>), (<<8>>)>>
    /\ call.result.ok
    /\ call.result.value.body = [some |-> TRUE, bytes |-> <<7, 8>>]
    /\ call.result.value.content_type = [some |-> TRUE, bytes |-> <<7>>]

\* ------------------------------------------------- C23 each successful envelope
\* the inscriptions of the well-formed envelopes of a script, in order
RECURSIVE WellFormedInscriptions(_)
WellFormedInscriptions(names) ==
    IF names = <<>> THEN <<>>
    ELSE (IF Head(names) \in WellFormed
          THEN <<InscriptionOf(SampleEnvelopes[Head(names)])>> ELSE <<>>)
         \o WellFormedInscriptions(Tail(names))

\* the inscriptions without their place in the transaction
InscriptionsReturned ==
    [k \in DOMAIN call.result |-> call.result[k].inscription]

\* a script of well-formed envelopes only yields one inscription for each
WellFormedEnvelopesYield ==
    (/\ call.f = "from_transaction"
     /\ call.arg.envelopes # <<>>
     /\ \A k \in DOMAIN call.arg.envelopes : call.arg.envelopes[k] \in WellFormed)
        => InscriptionsReturned = WellFormedInscriptions(call.arg.envelopes)

\* C23: for a script of several envelopes, from_transaction returns the
\* inscription of every well-formed envelope of the script, in order, also
\* when another envelope of the script is malformed.
EachEnvelopeYields ==
    (call.f = "from_transaction" /\ call.arg.envelopes # <<>>)
        => InscriptionsReturned = WellFormedInscriptions(call.arg.envelopes)

\* ------------------------------------------------- C25 move leaves other entries
\* list is `before` without the characters k + 1 .. k + Len(entry), which are
\* `entry` and are followed by the start of another entry or by nothing
RemovedAt(before, after, entry, k) ==
    /\ k + Len(entry) <= Len(before)
    /\ SubSeq(before, k + 1, k + Len(entry)) = entry
    /\ k + Len(entry) < Len(before) => before[k + Len(entry) + 1] = Slash
    /\ after = SubSeq(before, 1, k) \o SubSeq(before, k + Len(entry) + 1, Len(before))

MovedPlacements ==
    {k \in DOMAIN last.placed : last.placed[k].flotsam.origin.kind = "Old"}

\* C25: in every placement of an existing inscription id recorded at
\* (prev, off_old), the list of prev holds the entry "/id:off_old" once before
\* the placement and is afterwards that list without this entry, all other
\* entries as they were and in their order, and the list of the destination
\* output is afterwards its list before with "/id:<new offset>" at the end.
MoveLeavesOthers ==
    \A k \in MovedPlacements :
        LET p == last.placed[k]
            entry == Entry(p.flotsam.inscription_id, p.flotsam.origin.old_offset)
        IN /\ Cardinality({i \in 0..Len(p.from_before) :
                              RemovedAt(p.from_before, p.from_after, entry, i)}) = 1
           /\ Cardinality({i \in 0..Len(p.from_before) :
                              /\ i + Len(entry) <= Len(p.from_before)
                              /\ SubSeq(p.from_before, i + 1, i + Len(entry)) = entry}) = 1
           /\ p.to_after = p.to_before \o Entry(p.flotsam.inscription_id, p.offset)

\* an inscription leaves a list that keeps another entry, and one arrives in
\* a list that has an entry already
MoveLeavesOthersWitness ==
    /\ \E k \in MovedPlacements : last.placed[k].from_after # <<>>
    /\ \E k \in MovedPlacements : last.placed[k].to_before # <<>>

\* ------------------------------------------------- C26 cursed numbers in status
\* the new inscriptions placed so far with a cursed number
PlacedCursed ==
    {events[e].inscription_id : e \in {j \in InscribeEvents : events[j].id < 0}}
PlacedBlessed ==
    {events[e].inscription_id : e \in {j \in InscribeEvents : events[j].id >= 0}}

\* C26: in every state, the status row of every cursed inscription placed so
\* far holds its negative number, no status row exists under the id of a
\* blessed inscription, every status row under an inscription id belongs to a
\* cursed inscription placed so far, and the lookup made for the inscriptions
\* the last transaction carried, at the time it was replayed, was non-zero
\* exactly for the cursed ones.
CursedInStatus ==
    /\ \A e \in InscribeEvents :
          IF events[e].id < 0
          THEN /\ IdText(events[e].inscription_id) \in DOMAIN status
               /\ status[IdText(events[e].inscription_id)] = events[e].id
          ELSE IdText(events[e].inscription_id) \notin DOMAIN status
    /\ \A k \in DOMAIN status :
          k[1] = "id" => <<k[2], k[3]>> \in PlacedCursed
    /\ \A i \in 1..Len(last.floating) :
          last.floating[i].origin.kind = "Old" =>
              (status_value(last.status, IdText(last.floating[i].inscription_id)) # 0
                  <=> last.floating[i].inscription_id \in PlacedCursed)

\* a reinscription over an inscription that got its cursed number earlier in
\* the same block, next to a blessed inscription without a row
CursedInStatusWitness ==
    /\ pc = "indexing"
    /\ PlacedBlessed # {}
    /\ \E i \in 1..Len(last.found) :
          /\ last.found[i].curse = "Reinscription"
          /\ \E j \in 1..Len(last.floating) :
                /\ last.floating[j].origin.kind = "Old"
                /\ last.floating[j].offset = last.found[i].offset
                /\ last.floating[j].inscription_id \in PlacedCursed
                /\ \E e \in InscribeEvents :
                      /\ events[e].inscription_id = last.floating[j].inscription_id
                      /\ events[e].height = height
                /\ status_value(last.status,
                                IdText(last.floating[j].inscription_id)) < 0

\* ------------------------------------------------- C27 fee accumulation
FeeAccumulationStep ==
    TxReplayed =>
        IF last'.is_coinbase
        THEN /\ iu.reward = subsidy(height) + Fees(block')
             /\ iu'.reward = iu.reward
        ELSE /\ last'.input_value = InputValue(last'.tx)
             /\ last'.output_value = SumSeq(last'.tx.outputs)
             /\ last'.input_value - last'.output_value >= 0
             /\ iu'.reward = iu.reward + (last'.input_value - last'.output_value)

\* C27: the replay of a non-coinbase transaction adds to reward exactly the
\* sum of the values of the outputs it spends minus the sum of the values of
\* its outputs, which is not negative; reward starts a block at the subsidy,
\* so when the coinbase is replayed reward is the subsidy plus the fees of
\* all other transactions of the block, and the coinbase leaves it there.
FeeAccumulation ==
    [](pc = "indexing" /\ replayed = <<>> => iu.reward = subsidy(height))
    /\ [][FeeAccumulationStep]_vars

\* a coinbase replayed after two transactions that paid a fee
FeeAccumulationWitness ==
    /\ pc = "indexing"
    /\ last.is_coinbase
    /\ Len(block) = 3
    /\ Len(replayed) = 3
    /\ Fee(block[2]) > 0
    /\ Fee(block[3]) > 0
    /\ iu.reward = subsidy(height) + Fee(block[2]) + Fee(block[3])

\* ------------------------------------------------- C28 output_value rows
\* the outputs of the transactions replayed in full, by the pass or by the engine
CreatedOutputs ==
    UNION {{OutputKey(t, v - 1) : v \in 1..Len(node[t])} :
              t \in DOMAIN node \ DOMAIN ExternalTxs}

\* the coinbase transactions the engine has replayed
ReplayedCoinbases ==
    {chain[b][1].hash : b \in 1..Len(chain)} \cap DOMAIN node

\* the created outputs no replayed transaction has spent: a replayed
\* transaction takes what it spends out of utxo, and the outputs of the engine's
\* coinbase transactions are spent by none
UnspentCreated ==
    {k \in CreatedOutputs : k \in utxo \/ k[1] \in ReplayedCoinbases}

\* the transactions the node has served to the engine
ChainTxids ==
    UNION {{chain[b][p].hash : p \in 1..Len(chain[b])} : b \in 1..Len(chain)}

\* the transactions of the block being indexed
BlockTxids ==
    IF ChainIndex(height) \in 1..Len(chain)
    THEN {chain[ChainIndex(height)][p].hash : p \in 1..Len(chain[ChainIndex(height)])}
    ELSE {}

\* the rows of the table are exactly the unspent created outputs, with their values
OutputValueExact ==
    output_value = [k \in UnspentCreated |-> ChainValue(k)]

\* a row is a created output with its value, every unspent created output has
\* its row, and a row of a spent output belongs to the block being tried again
OutputValueRows ==
    /\ \A k \in DOMAIN output_value :
          /\ k \in CreatedOutputs
          /\ output_value[k] = ChainValue(k)
          /\ k \notin UnspentCreated => errors > 0 /\ k[1] \in BlockTxids
    /\ UnspentCreated \subseteq DOMAIN output_value

\* the table after the one batch of a transaction
AfterBatch(spent, txid, outputs) ==
    [k \in (DOMAIN output_value \ spent)
           \cup {OutputKey(txid, v - 1) : v \in 1..Len(outputs)} |->
        IF k[1] = txid THEN outputs[k[2] + 1] ELSE output_value[k]]

\* a step of the pre-population pass
EarlyTxReplayed == pc = "idle" /\ pc' = "idle" /\ used' = used + 1

OutputValueBatchStep ==
    /\ TxReplayed =>
          output_value' = AfterBatch({o \in Range(last'.tx.inputs) : ~is_null(o)},
                                     last'.tx.hash, last'.tx.outputs)
    /\ EarlyTxReplayed =>
          output_value' = AfterBatch(utxo \ utxo', FirstTxid + used,
                                     node'[FirstTxid + used])
    /\ output_value' # output_value => TxReplayed \/ EarlyTxReplayed

LookedUp(outpoint) ==
    IF OutputKey(outpoint[1], outpoint[2]) \in DOMAIN output_value
    THEN output_value[OutputKey(outpoint[1], outpoint[2])]
    ELSE node[outpoint[1]][outpoint[2] + 1]

\* the position of the block the loop of index_transactions is at
AtPosition == replay_order(Len(block))[Len(replayed) + 1]

\* get_raw_transaction returned Err inside the replay of a transaction
RawTransactionFailed ==
    pc = "indexing" /\ Len(replayed) < Len(block) /\ errors' = errors + 1

InputValueLookupStep ==
    /\ replayed' # replayed /\ replayed' # <<>> => TxReplayed
    /\ TxReplayed =>
          /\ replayed' = Append(replayed, AtPosition)
          /\ last'.input_value =
                SumSeq([i \in 1..Len(last'.tx.inputs) |->
                           IF is_null(last'.tx.inputs[i]) THEN subsidy(height)
                           ELSE LookedUp(last'.tx.inputs[i])])
    /\ RawTransactionFailed =>
          /\ \E i \in 1..Len(block'[AtPosition].inputs) :
                /\ ~is_null(block'[AtPosition].inputs[i])
                /\ OutputKey(block'[AtPosition].inputs[i][1],
                             block'[AtPosition].inputs[i][2]) \notin DOMAIN output_value
          /\ output_value' = output_value
          /\ status' = status
          /\ id_inscription' = id_inscription
          /\ inscription_output' = inscription_output
          /\ output_inscription' = output_inscription
          /\ events' = events
          /\ height' = height
          /\ pc' = "sleeping"
          /\ replayed' = <<>>
          /\ iu' = NoUpdater

\* C29: the value added to input_value for a spent output is the row of
\* output_value for it when there is one, and otherwise the value of that
\* output in the transaction get_raw_transaction returns; the RPC is made only
\* for an output without a row.  When it fails the replay of the transaction
\* ends with the error: no table is written, the output_value batch of the
\* transaction included, the updater is dropped, and no transaction of the
\* block is replayed until start() fetches the block again and starts with its
\* first transaction.
InputValueLookup ==
    /\ [](pc = "sleeping" => replayed = <<>> /\ iu = NoUpdater)
    /\ [][InputValueLookupStep]_vars

\* get_raw_transaction failed in the third transaction of a block, for an
\* input without a row, after the value of another input was read from its
\* row; the transaction before it was replayed and its batch written
InputValueLookupWitness ==
    /\ pc = "sleeping"
    /\ Len(block) >= 3
    /\ block[2].hash \in DOMAIN node
    /\ block[3] # NoTx
    /\ block[3].hash \notin DOMAIN node
    /\ Len(block[3].inputs) = 2
    /\ block[3].inputs[1] \in DOMAIN output_value
    /\ block[3].inputs[1][1] = block[2].hash
    /\ block[3].inputs[2] \notin DOMAIN output_value
    /\ \A k \in DOMAIN output_value : k[1] # block[3].hash

\* ------------------------------------------------- C30 no empty lists
\* flush_update ran
Flushed == pc = "indexing" /\ pc' = "idle"

NoEmptyListStep ==
    Flushed =>
        /\ \A output \in DOMAIN iu.output_inscription_cache :
              IF iu.output_inscription_cache[output] = <<>>
              THEN output \notin DOMAIN output_inscription'
              ELSE /\ output \in DOMAIN output_inscription'
                   /\ output_inscription'[output] = iu.output_inscription_cache[output]
        /\ \A output \in (DOMAIN output_inscription \cup DOMAIN output_inscription')
                            \ DOMAIN iu.output_inscription_cache :
              /\ output \in DOMAIN output_inscription
              /\ output \in DOMAIN output_inscription'
              /\ output_inscription'[output] = output_inscription[output]

\* C30: no key of output_inscription maps to an empty list.  flush_update
\* deletes the key of every output whose cached list is empty, gives every
\* output whose cached list is not empty exactly that list, and leaves the
\* outputs that are not in the cache as they were.
NoEmptyList ==
    /\ [](\A output \in DOMAIN output_inscription : output_inscription[output] # <<>>)
    /\ [][NoEmptyListStep]_vars

\* an inscription made in one block left its output in a later block: the row
\* written by the first flush_update was deleted by the second, the row of the
\* new output holds the inscription
NoEmptyListWitness ==
    /\ pc = "idle"
    /\ \E i, e \in 1..Len(events) :
          /\ events[i].kind = "inscribe"
          /\ events[e].kind = "transfer"
          /\ events[e].inscription_id = events[i].inscription_id
          /\ events[i].height < events[e].height
          /\ events[e].from_output = OutputKey(events[i].txid, events[i].vout)
          /\ events[e].from_output \notin DOMAIN output_inscription
          /\ OutputKey(events[e].txid, events[e].vout) \in DOMAIN output_inscription

\* ------------------------------------------------- C31 durability
\* a new process has just opened the data directory a process left between
\* two blocks, after it committed at least one
Reopened ==
    /\ reference # NoRun
    /\ disk.pc = "idle"
    /\ disk.height > first_height
    /\ pc = "idle"
    /\ height = first_height

\* the four tables opened from files hold what the closed process left
FileTablesDurable ==
    Reopened =>
        /\ status = reference.status
        /\ output_value = reference.output_value
        /\ id_inscription = reference.id_inscription
        /\ inscription_output = reference.inscription_output

\* C31: what the committed blocks wrote to status, output_value,
\* id_inscription, inscription_output and output_inscription is readable in
\* the instance opened next on the same data directory, and every inscription
\* of inscription_output is in the list of its output there.
Durability ==
    Reopened =>
        /\ FileTablesDurable
        /\ output_inscription = reference.output_inscription
        /\ \A id \in DOMAIN inscription_output :
              inscription_output[id] \in DOMAIN output_inscription

\* ------------------------------------------------- C32 historical errors
\* start() returned an Err
StartReturnedErr == call.f = "start" /\ call.result = "Err"

\* index_height_local returned Err
LocalErr == Running /\ InForLoop /\ errors' = errors + 1

HistoricalErrorStep ==
    /\ LocalErr => /\ call'.result = "Err"
                   /\ height' = height
                   /\ pc' = "idle"
    /\ call.f = "start" /\ ~Running => FALSE

\* C32: the first Err of index_height_local makes start() return it: start()
\* returns only from its for loop, at the height that failed, and once it has
\* returned nothing is indexed, neither a higher height of the local index nor
\* a block of the node.
HistoricalErrorsFatal ==
    /\ [](StartReturnedErr => InForLoop /\ pc = "idle" /\ errors = 1)
    /\ [][HistoricalErrorStep]_vars

\* start() returned the Err of the second height of its for loop, met inside
\* the block after the first height was committed
HistoricalErrorsFatalWitness ==
    /\ StartReturnedErr
    /\ height = FIRST_INSCRIPTION_HEIGHT + 1
    /\ height = ordi_index.max_height
    /\ INDEXED_HEIGHT \in DOMAIN status
    /\ status[INDEXED_HEIGHT] = FIRST_INSCRIPTION_HEIGHT
    /\ block # <<>> /\ block[Len(block)] # NoTx /\ block[Len(block)].hash \in DOMAIN node

\* ------------------------------------------------- C33 open files in a scan
\* the scan has read the block at max_height
ScanDone ==
    /\ call.f = "catch_block"
    /\ call.result = "Ok"
    /\ call.arg = ordi_index.max_height

OpenFiles == {blk_index \in DOMAIN ordi_index.blks : ordi_index.blks[blk_index]}

\* the entry at the highest height the loader has seen for a file is an entry
\* of that file: so it is when the store has no two kept rows at one height
HighestEntriesInPlace ==
    \A blk_index \in DOMAIN ordi_index.blks :
        ordi_index.entries[ordi_index.max_height_in_blk[blk_index]].blk_index = blk_index

\* in such an index the scan leaves no file open
ScanClosesFilesOfEntries == ScanDone /\ HighestEntriesInPlace => OpenFiles = {}

\* C33: when an ascending scan with catch_block has read the block at
\* max_height, no block file is open, for every index the loader builds.
ScanClosesFiles == ScanDone => OpenFiles = {}

\* ------------------------------------------------- C34 lookup by block hash
Looked == call.f = "get_block_entry_by_block_hash"

\* C34: get_block_entry_by_block_hash(hash) returns the entry of the block
\* row stored for hash when the store has one, and EntryNotFound when it has
\* none; it returns no entry of another block.
LookupByBlockHash ==
    Looked =>
        IF BlockPrefix \o call.arg.block_hash \in call.arg.store
        THEN /\ call.result.result = "Ok"
             /\ call.result.block_hash = call.arg.block_hash
        ELSE call.result.result = "EntryNotFound"

\* an entry that is returned is the entry of the hash asked for
LookupReturnsNoOtherBlock ==
    Looked /\ call.result.result = "Ok" => call.result.block_hash = call.arg.block_hash

\* ------------------------------------------------- C35 parser termination
LoopRan == call.f = "parse_inscriptions"

\* the turn of the loop that returned NoInscription began at the header of an
\* envelope that has no OP_ENDIF
EndedInsideEnvelope(ins, attempts) ==
    LET from == attempts[Len(attempts)].from
    IN /\ from + 2 <= Len(ins)
       /\ SubSeq(ins, from, from + 2) = inscription_envelope_header
       /\ \A k \in from..Len(ins) : ins[k] # Op(OP_ENDIF)

\* C35: parse_inscriptions ends on every script: its loop takes at most one
\* turn more than the script has instructions and leaves by NoInscription;
\* every turn before that one consumes at least one instruction; a turn
\* returns an inscription only when the last instruction it read is OP_ENDIF,
\* so that a script that ends earlier, inside an envelope too, gives
\* NoInscription, and NoInscription is returned at the end of the script only;
\* the inscriptions of the turns before stay as they were parsed.
ParserTerminates ==
    LoopRan =>
        LET ins == call.result.instructions
            attempts == call.result.attempts
            n == Len(call.result.attempts)
            parsed == [k \in 1..(n - 1) |->
                          [ok |-> attempts[k].current.ok,
                           error |-> attempts[k].current.error,
                           value |-> attempts[k].current.value]]
        IN /\ n >= 1
           /\ n <= Len(ins) + 1
           /\ attempts[1].from = 1
           /\ ~attempts[n].current.ok
           /\ attempts[n].current.error = "NoInscription"
           /\ attempts[n].current.pos = Len(ins) + 1
           /\ \A k \in 1..(n - 1) :
                 /\ attempts[k].current.pos > attempts[k].from
                 /\ attempts[k + 1].from = attempts[k].current.pos
                 /\ attempts[k].current.ok \/ attempts[k].current.error # "NoInscription"
                 /\ attempts[k].current.ok =>
                       ins[attempts[k].current.pos - 1] = Op(OP_ENDIF)
           /\ (\A k \in 1..(n - 1) : attempts[k].current.ok) =>
                 /\ collect(parsed).ok
                 /\ Len(collect(parsed).value) = n - 1

\* an envelope was parsed and the script ends inside the body of a second one
ParserTerminatesWitness ==
    /\ LoopRan
    /\ Len(call.result.attempts) = 2
    /\ call.result.attempts[1].current.ok
    /\ EndedInsideEnvelope(call.result.instructions, call.result.attempts)
    /\ Len(call.result.instructions) > call.result.attempts[2].from + 3
    /\ call.result.instructions[Len(call.result.instructions) - 1] = PushBytes(BODY_TAG)

\* ------------------------------------------------- C36 envelope header
Advanced == call.f = "advance_into_inscription_envelope"

\* the places of a stream where OP_FALSE, OP_IF, PUSH "ord" begin
HeaderPlaces(ins) ==
    {k \in 1..(Len(ins) - 2) : SubSeq(ins, k, k + 2) = inscription_envelope_header}

\* C36: advance_into_inscription_envelope leaves the parser just after the
\* first OP_FALSE, OP_IF, PUSH "ord" of the stream when the stream has one,
\* whatever comes before it, and returns NoInscription only when it has none.
HeaderDetection ==
    Advanced =>
        LET ins == call.result.instructions
            advanced == call.result.advanced
        IN IF HeaderPlaces(ins) # {}
           THEN /\ advanced.ok
                /\ \A k \in HeaderPlaces(ins) : advanced.pos <= k + 3
                /\ advanced.pos - 3 \in HeaderPlaces(ins)
           ELSE /\ ~advanced.ok
                /\ advanced.error \in {"NoInscription", "Script"}

\* where the parser is left, it is left just after a header
HeaderDetectionSound ==
    Advanced /\ call.result.advanced.ok =>
        call.result.advanced.pos - 3 \in HeaderPlaces(call.result.instructions)

\* ------------------------------------------------- C37 envelopes and ids
TxIndexed == last.tx # NoTx

\* the flotsam of kind New that the last transaction's pass holds for an id
NewFlotsamOf(inscription_id) ==
    {j \in 1..Len(last.floating) :
        /\ last.floating[j].inscription_id = inscription_id
        /\ last.floating[j].origin.kind = "New"}

\* the envelopes of `parsed` became new flotsam, one each, with the ids
\* <txid>i0, <txid>i1, ... in the order of the parser
BecameInscriptions(parsed) ==
    /\ Len(last.found) = Len(parsed)
    /\ \A i \in 1..Len(parsed) :
          /\ last.found[i].inscription_id = <<last.tx.hash, i - 1>>
          /\ last.found[i].tx_in_index = parsed[i].tx_in_index
          /\ last.found[i].tx_in_offset = parsed[i].tx_in_offset
          /\ Cardinality(NewFlotsamOf(<<last.tx.hash, i - 1>>)) = 1
    /\ \A j \in 1..Len(last.floating) :
          last.floating[j].origin.kind = "New"
          /\ last.floating[j].inscription_id[1] = last.tx.hash
          => last.floating[j].inscription_id[2] \in 0..(Len(parsed) - 1)

\* C37 as stated: every TransactionInscription of Inscription::from_transaction
\* becomes exactly one new flotsam with the ids in parser order, the
\* envelopes of a coinbase input too.
EveryEnvelopeBecomesInscription ==
    TxIndexed => BecameInscriptions(from_transaction(last.tx))

\* C37: every TransactionInscription of a transaction whose inputs are not
\* null outpoints becomes exactly one new flotsam, with the ids <txid>i0,
\* <txid>i1, ... in parser order without gaps; the envelopes of the input of
\* a coinbase become no flotsam and take no id.
EnvelopesBecomeInscriptions ==
    TxIndexed =>
        BecameInscriptions(IF last.is_coinbase THEN <<>> ELSE from_transaction(last.tx))

\* a transaction of two inputs with an envelope each was replayed
EnvelopesBecomeInscriptionsWitness ==
    /\ TxIndexed
    /\ ~last.is_coinbase
    /\ Len(last.tx.inputs) = 2
    /\ last.tx.envelopes = <<0, 1>> \/ last.tx.envelopes = <<2>>
    /\ Len(last.found) >= 1

\* a coinbase with envelopes in its witness was replayed
CoinbaseEnvelopesDropped ==
    /\ TxIndexed
    /\ last.is_coinbase
    /\ Len(from_transaction(last.tx)) = 2
    /\ last.found = <<>>

\* ------------------------------------------------- C38 a failed block
\* index_transactions returned Err for the block at height
BlockFailed == pc = "sleeping"

\* the counters of the status table
StatusCounters(table) ==
    [k \in {UNBOUND_INSCRIPTIONS, NEXT_ID_NUMBER, NEXT_CURSED_ID_NUMBER, LOST_SATS,
            INDEXED_HEIGHT} \cap DOMAIN table |-> table[k]]

\* C38: when index_transactions returns an error for a block, the five tables
\* are as they were before the call.
FailedBlockLeavesNoTrace ==
    BlockFailed =>
        /\ status = reference.status
        /\ output_value = reference.output_value
        /\ id_inscription = reference.id_inscription
        /\ inscription_output = reference.inscription_output
        /\ output_inscription = reference.output_inscription

\* the tables that flush_update alone writes are as they were before the call
FailedBlockKeepsFlushedTables ==
    BlockFailed =>
        /\ StatusCounters(status) = StatusCounters(reference.status)
        /\ id_inscription = reference.id_inscription
        /\ inscription_output = reference.inscription_output
        /\ output_inscription = reference.output_inscription

\* ------------------------------------------------- C39 heights of start()
\* the engine has been handed the block at height
HandedToEngine == call.f = "start" /\ pc = "indexing"

\* C39: every height that start() hands to the engine is at least
\* FIRST_INSCRIPTION_HEIGHT, with any local index and without one.
HeightsFromFirst ==
    HandedToEngine => height >= FIRST_INSCRIPTION_HEIGHT

\* a height is indexed with success: flush_update has written the tables
IndexedStep ==
    /\ HandedToEngine
    /\ INDEXED_HEIGHT \in DOMAIN status'
    /\ INDEXED_HEIGHT \in DOMAIN status => status'[INDEXED_HEIGHT] # status[INDEXED_HEIGHT]

\* the heights indexed with success are the first height of the run and then
\* every next one, each once
HeightsInOrderStep ==
    IndexedStep =>
        /\ status'[INDEXED_HEIGHT] = height
        /\ IF INDEXED_HEIGHT \in DOMAIN status
           THEN height = status[INDEXED_HEIGHT] + 1
           ELSE height = call.arg
HeightsInOrder == [][HeightsInOrderStep]_vars

\* ------------------------------------------------- C40 events and tables
\* flush_update has written the tables of the block at height - 1
BlockFlushed == pc = "idle" /\ height > FIRST_INSCRIPTION_HEIGHT

\* the entries handed to the handlers for the block flushed last, each the
\* last entry of its inscription
LastEntriesOfBlock ==
    {i \in 1..Len(events) :
        /\ events[i].height = height - 1
        /\ \A j \in (i + 1)..Len(events) :
              events[j].inscription_id # events[i].inscription_id}

\* the list of an output has the inscription
ListHas(output, inscription_id) ==
    /\ output \in DOMAIN output_inscription
    /\ \E k \in 1..Len(ParseInscriptions(output_inscription[output])) :
          ParseInscriptions(output_inscription[output])[k].inscription_id = inscription_id

\* the list of an output has the inscription at an offset
ListHasAt(output, inscription_id, offset) ==
    /\ output \in DOMAIN output_inscription
    /\ \E k \in 1..Len(ParseInscriptions(output_inscription[output])) :
          /\ ParseInscriptions(output_inscription[output])[k].inscription_id = inscription_id
          /\ ParseInscriptions(output_inscription[output])[k].offset = offset

\* the tables hold the inscription of an entry where the entry says
StoredWhereEntrySays(e) ==
    /\ e.inscription_id \in DOMAIN inscription_output
    /\ inscription_output[e.inscription_id] = OutputKey(e.txid, e.vout)
    /\ IF e.kind = "transfer"
       THEN ListHasAt(OutputKey(e.txid, e.vout), e.inscription_id, e.offset)
       ELSE ListHas(OutputKey(e.txid, e.vout), e.inscription_id)

\* the tables hold the inscription of an InscribeEntry under an unbound key
StoredUnbound(e) ==
    /\ e.kind = "inscribe"
    /\ e.inscription_id \in DOMAIN inscription_output
    /\ \E n \in 0..(status[UNBOUND_INSCRIPTIONS] - 1) :
          /\ inscription_output[e.inscription_id] = unbound_satpoint(n)
          /\ ListHas(unbound_satpoint(n), e.inscription_id)

\* C40 as stated: after flush_update the tables hold the inscription of every
\* entry that is the last of its inscription in the block under the output
\* "<entry.txid>:<entry.vout>", at the offset of the entry.
EventsAgreeWithTables ==
    BlockFlushed => \A i \in LastEntriesOfBlock : StoredWhereEntrySays(events[i])

\* C40: after flush_update the tables hold the inscription of every
\* TransferEntry, and of every InscribeEntry of an inscription that is not
\* flagged unbound, that is the last of its inscription in the block under
\* the output "<entry.txid>:<entry.vout>", at the offset of the entry; the
\* inscription of an InscribeEntry flagged unbound is held under an unbound
\* key, while the entry names the output its offset falls in.
EventsAgreeUnlessUnbound ==
    /\ BlockFlushed =>
          \A i \in LastEntriesOfBlock :
              StoredWhereEntrySays(events[i]) \/ StoredUnbound(events[i])
    /\ \A k \in 1..Len(last.placed) :
          LET p == last.placed[k]
          IN /\ (p.output = OutputKey(p.new_txid, p.vout)) = ~IsUnbound(p.flotsam)
             /\ IsUnbound(p.flotsam) => p.output = unbound_satpoint(p.unbound_inscriptions)
             /\ \E i \in 1..Len(events) :
                   /\ events[i].inscription_id = p.flotsam.inscription_id
                   /\ events[i].txid = p.new_txid
                   /\ events[i].vout = p.vout

\* a block was flushed in which an inscription was moved to the second output
\* of a transaction
EventsAgreeUnlessUnboundWitness ==
    /\ BlockFlushed
    /\ \E i \in LastEntriesOfBlock :
          /\ events[i].kind = "transfer"
          /\ events[i].vout = 1
          /\ StoredWhereEntrySays(events[i])
====
